---- MODULE Spec2Model ----
(***************************************************************************)
(* Model of the Handel aggregation agent of handel-rs: the multi-signature *)
(* value, the replace store, the per-level state, the agent's handlers     *)
(* (startup, inbound message and drain loop, periodic update, level        *)
(* timeout) and a network of agents exchanging datagrams.  Two components  *)
(* are modelled on their own: the binomial partitioner of partitioner.rs   *)
(* and the UDP receive task with its frame decoder of network.rs.          *)
(*                                                                         *)
(* An individual BLS signature is modelled by the id of the key that made  *)
(* it; an aggregate signature is the bag of the individual signatures that *)
(* were added into it.  Option<T> is the empty set or a singleton.         *)
(***************************************************************************)
EXTENDS Integers, Sequences, FiniteSets, Bags, TLC

VARIABLES
    config,         \* Config and roster: max_id, threshold, weight
    live,           \* ids of the agents that run
    done,           \* HandelState.done, per agent
    todos,          \* HandelState.todos, per agent
    store,          \* HandelState.store, per agent
    levels,         \* HandelAgent.levels[i].state, per agent
    result_sender,  \* HandelAgent.result_sender (TRUE = Some), per agent
    result,         \* what was sent on the result channel, per agent
    recv,           \* the receive task: position in on_message and its todo
    init,           \* the startup future: position
    next_timeout,   \* the timeout stream: next level to emit
    panicked,       \* tasks of the agent that ended in a panic
    net,            \* datagrams on their way to a running agent
    injected,       \* number of datagrams the environment has injected
    feed,           \* datagrams a scripted peer still has to deliver
    overflow_checks,\* the build: TRUE when integer overflow panics (debug)
    partitioner,    \* Option<BinomialPartitioner>: node_id, max_level, size
    ranges,         \* what identities_at returned, per level asked
    udp,            \* the UDP receive task: socket, recv_spawn, handled
    sink,           \* a call of send_to: the ids, the position, the messages sent
    locks           \* the agent lock and the level locks: holders, waiters, tasks

\* the components that are modelled on their own
standalone == <<overflow_checks, partitioner, ranges, udp, sink, locks>>

vars == <<config, live, done, todos, store, levels, result_sender, result,
          recv, init, next_timeout, panicked, net, injected, feed, standalone>>

\* ------------------------------------------------------------------ bounds

\* how many datagrams the environment injects in Spec
MaxInject == 2

\* the largest identity registry handed to BinomialPartitioner::new
MaxSize == 8

\* how many datagrams arrive at the socket of the UDP receive task
MaxFrames == 3

\* how many peer ids a call of send_to is handed
MaxTo == 3

\* how many times a peer delivers the same datagram in SpecRepeat
MaxRepeat == 7

\* ------------------------------------------------------- program constants

PeerCount == 10
UpdateCount == 1

\* the largest frame size Codec::decode accepts
MaxFrameSize == 1024

\* ------------------------------------------------------------- arithmetic

Min(a, b) == IF a < b THEN a ELSE b

RECURSIVE Pow2(_)
Pow2(k) == IF k = 0 THEN 1 ELSE 2 * Pow2(k - 1)

\* a.saturating_sub(b)
SaturatingSub(a, b) == IF a > b THEN a - b ELSE 0

\* BitSet ^ BitSet
SymDiff(a, b) == (a \ b) \cup (b \ a)

EmptyMap == [x \in {} |-> x]

\* the ids of a set in ascending order
RECURSIVE SortedSeq(_)
SortedSeq(S) ==
    IF S = {} THEN <<>>
    ELSE LET lo == CHOOSE x \in S : \A y \in S : x <= y
         IN <<lo>> \o SortedSeq(S \ {lo})

\* ------------------------------------------------------------ partitioner
\* BinomialPartitioner::new(node_id, max_id) with num_levels, range, size and
\* combine, as the store, the levels and the agent use it.

RECURSIVE CeilLog2(_)
CeilLog2(n) == IF n <= 1 THEN 0 ELSE 1 + CeilLog2((n + 1) \div 2)

NumLevels(max_id) == CeilLog2(max_id + 1) + 1

\* ids of the roster
Roster == 0 .. config.max_id

L == NumLevels(config.max_id)

LevelIds == 0 .. (L - 1)

\* node_id XOR (1 << (level - 1)), then & ~m and | m
Range(node_id, level) ==
    IF level = 0 THEN {node_id}
    ELSE LET f    == Pow2(level - 1)
             flip == IF (node_id \div f) % 2 = 1 THEN node_id - f ELSE node_id + f
             lo   == (flip \div f) * f
             hi   == lo + f - 1
         IN (lo .. hi) \cap Roster

\* to_receive of a level
Size(level) == IF level = 0 THEN 1 ELSE Pow2(level - 1)

\* ---------------------------------------------------------- MultiSignature

\* AggregateSignature::new() with one signature aggregated
SigOf(signature) == SetToBag({signature})

from_individual(signature, signer) ==
    [signature |-> SigOf(signature), signers |-> {signer}]

len(multisig) == Cardinality(multisig.signers)

\* add_multisig: [ok, multisig]; on Err the multi-signature is unchanged
add_multisig(self, other) ==
    LET overlap == self.signers \cap other.signers
    IN IF overlap = {}
       THEN [ok |-> TRUE,
             multisig |-> [signature |-> self.signature (+) other.signature,
                           signers |-> self.signers \cap other.signers]]
       ELSE [ok |-> FALSE, multisig |-> self]

add_individual(self, other, peer_id) ==
    IF peer_id \in self.signers
    THEN [ok |-> FALSE, multisig |-> self]
    ELSE [ok |-> TRUE,
          multisig |-> [signature |-> self.signature (+) SigOf(other),
                        signers |-> self.signers \cup {peer_id}]]

\* combine(signatures, level): the per-level multi-signatures merged in order;
\* None for an empty list, a panic when two of them overlap
RECURSIVE CombineFrom(_, _, _)
CombineFrom(acc, signatures, i) ==
    IF i > Len(signatures) THEN [panic |-> FALSE, value |-> {acc}]
    ELSE LET r == add_multisig(acc, signatures[i])
         IN IF r.ok THEN CombineFrom(r.multisig, signatures, i + 1)
            ELSE [panic |-> TRUE, value |-> {}]

combine(signatures) ==
    IF signatures = <<>> THEN [panic |-> FALSE, value |-> {}]
    ELSE CombineFrom(signatures[1], signatures, 2)

\* ------------------------------------------------------------ ReplaceStore

\* ReplaceStore::new
NewStore ==
    [best_level |-> 0,
     individual_verified |-> [l \in LevelIds |-> {}],
     individual_signatures |-> [l \in LevelIds |-> EmptyMap],
     multisig_best |-> EmptyMap]

\* the individual signatures of `ids` added into multisig, ascending
RECURSIVE AddComplements(_, _, _)
AddComplements(multisig, individuals, ids) ==
    IF ids = {} THEN [panic |-> FALSE, multisig |-> multisig]
    ELSE LET id == CHOOSE x \in ids : \A y \in ids : x <= y
         IN IF id \notin DOMAIN individuals
            THEN [panic |-> TRUE, multisig |-> multisig]
            ELSE LET r == add_individual(multisig, individuals[id], id)
                 IN IF r.ok
                    THEN AddComplements(r.multisig, individuals, ids \ {id})
                    ELSE [panic |-> TRUE, multisig |-> multisig]

\* check_merge without the test that the merged multi-signature gets better
check_merge_any(st, candidate, level) ==
    IF level \in DOMAIN st.multisig_best
    THEN LET best_multisig == st.multisig_best[level]
             multisig      == add_multisig(candidate, best_multisig).multisig
         IN IF level \notin LevelIds
            THEN [panic |-> TRUE, value |-> {}]
            ELSE LET individual_verified == st.individual_verified[level]
                     complements ==
                         SymDiff(multisig.signers \cap individual_verified,
                                 individual_verified)
                     r == AddComplements(multisig,
                              st.individual_signatures[level], complements)
                 IN [panic |-> r.panic,
                     value |-> IF r.panic THEN {} ELSE {r.multisig}]
    ELSE [panic |-> FALSE, value |-> {candidate}]

\* check_merge: [panic, value], value an Option<MultiSignature>
check_merge(st, candidate, level) ==
    IF level \in DOMAIN st.multisig_best
    THEN LET best_multisig == st.multisig_best[level]
             multisig      == add_multisig(candidate, best_multisig).multisig
         IN IF level \notin LevelIds
            THEN [panic |-> TRUE, value |-> {}]
            ELSE LET individual_verified == st.individual_verified[level]
                     complements ==
                         SymDiff(multisig.signers \cap individual_verified,
                                 individual_verified)
                 IN IF Cardinality(complements) + len(multisig) <= len(best_multisig)
                    THEN [panic |-> FALSE, value |-> {}]
                    ELSE LET r == AddComplements(multisig,
                                      st.individual_signatures[level], complements)
                         IN [panic |-> r.panic,
                             value |-> IF r.panic THEN {} ELSE {r.multisig}]
    ELSE [panic |-> FALSE, value |-> {candidate}]

\* the score of a panicking evaluation
Panic == 0 - 1

\* evaluate_multisig with a plain subtraction where the source saturates
evaluate_multisig_unsaturated(st, multisig, level, votes) ==
    IF level \notin LevelIds THEN Panic
    ELSE
    LET to_receive == Size(level)
        has_best   == level \in DOMAIN st.multisig_best
        best_signature == st.multisig_best[level]
    IN IF has_best /\ to_receive = len(best_signature) THEN 0
       ELSE IF has_best /\ multisig.signers \subseteq best_signature.signers THEN 0
       ELSE
       LET with_individuals == multisig.signers \cup st.individual_verified[level]
           t == IF has_best
                THEN IF Cardinality(multisig.signers \cap best_signature.signers) > 0
                     THEN LET new_total == Cardinality(with_individuals)
                          IN <<new_total,
                               new_total - len(best_signature),
                               new_total - len(multisig)>>
                     ELSE LET final_sig == with_individuals \cup best_signature.signers
                              new_total == Cardinality(final_sig)
                          IN <<new_total,
                               new_total - len(best_signature),
                               Cardinality(SymDiff(final_sig,
                                   best_signature.signers \cup multisig.signers))>>
                ELSE LET new_total == Cardinality(with_individuals)
                     IN <<new_total, new_total, new_total - len(multisig)>>
           new_total     == t[1]
           added_sigs    == t[2]
           combined_sigs == t[3]
       IN IF added_sigs = 0
          THEN (IF len(multisig) = 1 THEN 1 ELSE 0)
          ELSE IF new_total = to_receive
          THEN 1000000 - level * 10 - combined_sigs
          ELSE 100000 - level * 100 + added_sigs * 10 - combined_sigs

evaluate_multisig(st, multisig, level, votes) ==
    IF level \notin LevelIds THEN Panic
    ELSE
    LET to_receive == Size(level)
        has_best   == level \in DOMAIN st.multisig_best
        best_signature == st.multisig_best[level]
    IN IF has_best /\ to_receive = len(best_signature) THEN 0
       ELSE IF has_best /\ multisig.signers \subseteq best_signature.signers THEN 0
       ELSE
       LET with_individuals == multisig.signers \cup st.individual_verified[level]
           t == IF has_best
                THEN IF Cardinality(multisig.signers \cap best_signature.signers) > 0
                     THEN LET new_total == Cardinality(with_individuals)
                          IN <<new_total,
                               SaturatingSub(new_total, len(best_signature)),
                               new_total - len(multisig)>>
                     ELSE LET final_sig == with_individuals \cup best_signature.signers
                              new_total == Cardinality(final_sig)
                          IN <<new_total,
                               new_total - len(best_signature),
                               Cardinality(SymDiff(final_sig,
                                   best_signature.signers \cup multisig.signers))>>
                ELSE LET new_total == Cardinality(with_individuals)
                     IN <<new_total, new_total, new_total - len(multisig)>>
           new_total     == t[1]
           added_sigs    == t[2]
           combined_sigs == t[3]
       IN IF added_sigs = 0
          THEN (IF len(multisig) = 1 THEN 1 ELSE 0)
          ELSE IF new_total = to_receive
          THEN 1000000 - level * 10 - combined_sigs
          ELSE 100000 - level * 100 + added_sigs * 10 - combined_sigs

\* evaluate_multisig, the usize subtractions: TRUE when one of them would go
\* below zero
evaluate_underflows(st, multisig, level) ==
    LET to_receive == Size(level)
        has_best   == level \in DOMAIN st.multisig_best
        best_signature == st.multisig_best[level]
        with_individuals == multisig.signers \cup st.individual_verified[level]
        final_sig == with_individuals \cup best_signature.signers
        merge == has_best /\ Cardinality(multisig.signers \cap best_signature.signers) = 0
        new_total == IF merge THEN Cardinality(final_sig) ELSE Cardinality(with_individuals)
        added_sigs == IF has_best
                      THEN (IF merge THEN new_total - len(best_signature)
                            ELSE SaturatingSub(new_total, len(best_signature)))
                      ELSE new_total
        combined_sigs == IF merge
                         THEN Cardinality(SymDiff(final_sig,
                                  best_signature.signers \cup multisig.signers))
                         ELSE new_total - len(multisig)
    IN IF has_best /\ to_receive = len(best_signature) THEN FALSE
       ELSE IF has_best /\ multisig.signers \subseteq best_signature.signers THEN FALSE
       ELSE \/ merge /\ new_total < len(best_signature)
            \/ ~merge /\ new_total < len(multisig)
            \/ added_sigs # 0 /\ new_total = to_receive
                  /\ 1000000 - level * 10 < combined_sigs
            \/ added_sigs # 0 /\ new_total # to_receive
                  /\ (100000 < level * 100
                      \/ 100000 - level * 100 + added_sigs * 10 < combined_sigs)

evaluate_individual(st, individual, level, peer_id) ==
    IF level \notin LevelIds THEN Panic
    ELSE IF peer_id \in DOMAIN st.individual_signatures[level] THEN 0
    ELSE evaluate_multisig(st, from_individual(individual, peer_id), level, 1)

\* put_multisig: [panic, store]
put_multisig(st, multisig, level) ==
    LET m == check_merge(st, multisig, level)
    IN IF m.panic THEN [panic |-> TRUE, store |-> st]
       ELSE IF m.value # {}
       THEN LET best_multisig == CHOOSE x \in m.value : TRUE
            IN [panic |-> FALSE,
                store |-> [st EXCEPT
                    !.multisig_best = (level :> best_multisig) @@ @,
                    !.best_level = IF level > @ THEN level ELSE @]]
       ELSE [panic |-> FALSE, store |-> st]

\* put_individual that marks the signature verified without storing it
put_individual_unstored(st, individual, level, peer_id) ==
    IF level \notin LevelIds THEN [panic |-> TRUE, store |-> st]
    ELSE put_multisig(
            [st EXCEPT !.individual_verified[level] = @ \cup {peer_id}],
            from_individual(individual, peer_id), level)

put_individual(st, individual, level, peer_id) ==
    IF level \notin LevelIds THEN [panic |-> TRUE, store |-> st]
    ELSE put_multisig(
            [st EXCEPT !.individual_verified[level] = @ \cup {peer_id},
                       !.individual_signatures[level] = (peer_id :> individual) @@ @],
            from_individual(individual, peer_id), level)

best(st, level) ==
    IF level \in DOMAIN st.multisig_best THEN {st.multisig_best[level]} ELSE {}

\* combined without the test for a missing level
combined_no_gap(st, level) ==
    LET present == {i \in DOMAIN st.multisig_best : i <= level}
        order   == SortedSeq(present)
    IN combine([k \in 1 .. Len(order) |-> st.multisig_best[order[k]]])

\* combined: [panic, value], value an Option<MultiSignature>
combined(st, level) ==
    LET present == {i \in DOMAIN st.multisig_best : i <= level}
        order   == SortedSeq(present)
    IN IF \E k \in 1 .. Len(order) : order[k] > k - 1
       THEN [panic |-> FALSE, value |-> {}]
       ELSE combine([k \in 1 .. Len(order) |-> st.multisig_best[order[k]]])

\* ------------------------------------------------------------------ Level

\* Level.peer_ids with disable_shuffling
peer_ids(node_id, level) == SortedSeq(Range(node_id, level))

num_peers(node_id, level) == Len(peer_ids(node_id, level))

\* create_levels: send_expected_full_size starts at 1 and grows by each level's size
RECURSIVE send_expected_full_size(_, _)
send_expected_full_size(node_id, level) ==
    IF level = 0 THEN 1
    ELSE send_expected_full_size(node_id, level - 1) + num_peers(node_id, level - 1)

\* create_levels: the first level is born with send_started
create_levels ==
    [l \in LevelIds |->
        [send_started |-> (l = 0),
         receive_completed |-> FALSE,
         send_peers_pos |-> 0,
         send_signature_size |-> 0,
         send_peers_count |-> 0]]

\* Level::start
start(state) == [state EXCEPT !.send_started = TRUE]

\* select_next_peers with a cursor that falls back to 0 after every peer
RECURSIVE select_next_peers_reset(_, _, _, _)
select_next_peers_reset(node_id, level, state, count) ==
    LET peers == peer_ids(node_id, level)
        size  == Min(count, Len(peers))
    IN IF size = 0 THEN [selected |-> <<>>, state |-> state]
       ELSE LET before == select_next_peers_reset(node_id, level, state, size - 1)
            IN [selected |-> Append(before.selected,
                                    peers[before.state.send_peers_pos + 1]),
                state |-> [before.state EXCEPT !.send_peers_pos = 0]]

\* select_next_peers: [selected, state].  The loop runs size times under the
\* write lock of the level state; a pass pushes the peer under the cursor and
\* moves the cursor on, back to 0 at the end of peer_ids
RECURSIVE select_next_peers(_, _, _, _)
select_next_peers(node_id, level, state, count) ==
    LET peers == peer_ids(node_id, level)
        size  == Min(count, Len(peers))
    IN IF size = 0 THEN [selected |-> <<>>, state |-> state]
       ELSE LET before == select_next_peers(node_id, level, state, size - 1)
                pos == before.state.send_peers_pos + 1
            IN [selected |-> Append(before.selected,
                                    peers[before.state.send_peers_pos + 1]),
                state |-> [before.state EXCEPT
                              !.send_peers_pos = IF pos >= Len(peers) THEN 0 ELSE pos]]

\* update_signature_to_send: [updated, state]
update_signature_to_send(node_id, level, state, signature) ==
    IF state.send_signature_size >= len(signature)
    THEN [updated |-> FALSE, state |-> state]
    ELSE LET full == len(signature) = send_expected_full_size(node_id, level)
         IN [updated |-> full,
             state |-> [state EXCEPT
                 !.send_signature_size = len(signature),
                 !.send_peers_count = 0,
                 !.send_started = IF full THEN TRUE ELSE @]]

\* ------------------------------------------------------------ HandelAgent

\* Config::individual_signature of an agent
individual(node_id) == node_id

\* send_to: the datagrams put on the sink
send_to(node_id, to, multisig, indiv, level) ==
    {[to |-> to[j], origin |-> node_id, level |-> level,
      multisig |-> multisig, individual |-> indiv] :
        j \in {k \in 1 .. Len(to) : to[k] # node_id /\ to[k] \in Roster}}

\* send_update attaching the individual signature whatever the level state
send_update_signed(node_id, b, multisig, level, count) ==
    LET sel   == select_next_peers(node_id, level, b.levels[level], count)
        indiv == {individual(node_id)}
    IN [b EXCEPT !.levels[level] = sel.state,
                 !.out = @ \cup send_to(node_id, sel.selected, multisig, indiv, level)]

\* A handler's effect on the levels and the sink: [levels, out, panic]
\* send_update
send_update(node_id, b, multisig, level, count) ==
    LET sel   == select_next_peers(node_id, level, b.levels[level], count)
        indiv == IF b.levels[level].receive_completed THEN {}
                 ELSE {individual(node_id)}
    IN [b EXCEPT !.levels[level] = sel.state,
                 !.out = @ \cup send_to(node_id, sel.selected, multisig, indiv, level)]

\* start_level
start_level(node_id, st, b, level) ==
    IF level \notin LevelIds THEN [b EXCEPT !.panic = TRUE]
    ELSE LET b1 == [b EXCEPT !.levels[level] = start(@)]
         IN IF level > 0
            THEN LET c == combined(st, level - 1)
                 IN IF c.panic THEN [b1 EXCEPT !.panic = TRUE]
                    ELSE IF c.value # {}
                    THEN send_update(node_id, b1, CHOOSE x \in c.value : TRUE,
                                     level, PeerCount)
                    ELSE b1
            ELSE b1

\* on_update sending to peer_count peers of every level
RECURSIVE on_update_from_peer_count(_, _, _, _)
on_update_from_peer_count(node_id, st, b, i) ==
    IF i >= L \/ b.panic THEN b
    ELSE LET c == combined(st, i - 1)
         IN IF c.panic THEN [b EXCEPT !.panic = TRUE]
            ELSE on_update_from_peer_count(node_id, st,
                    IF c.value # {}
                    THEN send_update(node_id, b, CHOOSE x \in c.value : TRUE,
                                     i, PeerCount)
                    ELSE b,
                    i + 1)

\* on_update, levels i .. L-1
RECURSIVE on_update_from(_, _, _, _)
on_update_from(node_id, st, b, i) ==
    IF i >= L \/ b.panic THEN b
    ELSE LET c == combined(st, i - 1)
         IN IF c.panic THEN [b EXCEPT !.panic = TRUE]
            ELSE on_update_from(node_id, st,
                    IF c.value # {}
                    THEN send_update(node_id, b, CHOOSE x \in c.value : TRUE,
                                     i, UpdateCount)
                    ELSE b,
                    i + 1)

\* check_completed_level, the loop over the levels i .. L-1 above the todo's
RECURSIVE send_larger_from(_, _, _, _)
send_larger_from(node_id, st, b, i) ==
    IF i >= L \/ b.panic THEN b
    ELSE LET c == combined(st, i - 1)
         IN IF c.panic THEN [b EXCEPT !.panic = TRUE]
            ELSE IF c.value = {} THEN send_larger_from(node_id, st, b, i + 1)
            ELSE LET multisig == CHOOSE x \in c.value : TRUE
                     u == update_signature_to_send(node_id, i, b.levels[i], multisig)
                     b1 == [b EXCEPT !.levels[i] = u.state]
                 IN send_larger_from(node_id, st,
                        IF u.updated
                        THEN send_update(node_id, b1, multisig, i, PeerCount)
                        ELSE b1,
                        i + 1)

\* check_completed_level that marks the level and leaves the next one alone
check_completed_level_no_start(node_id, st, b, todo_level) ==
    IF todo_level \notin LevelIds THEN b
    ELSE IF b.levels[todo_level].receive_completed THEN b
    ELSE IF best(st, todo_level) = {} THEN [b EXCEPT !.panic = TRUE]
    ELSE LET best_ms == CHOOSE x \in best(st, todo_level) : TRUE
             b1 == IF len(best_ms) = num_peers(node_id, todo_level)
                   THEN [b EXCEPT !.levels[todo_level].receive_completed = TRUE]
                   ELSE b
         IN send_larger_from(node_id, st, b1, todo_level + 1)

\* check_completed_level without the test of receive_completed
check_completed_level_unguarded(node_id, st, b, todo_level) ==
    IF todo_level \notin LevelIds THEN b
    ELSE IF best(st, todo_level) = {} THEN [b EXCEPT !.panic = TRUE]
    ELSE LET best_ms == CHOOSE x \in best(st, todo_level) : TRUE
             b1 == IF len(best_ms) = num_peers(node_id, todo_level)
                   THEN LET b0 == [b EXCEPT !.levels[todo_level].receive_completed = TRUE]
                        IN IF todo_level + 1 < L
                           THEN start_level(node_id, st, b0, todo_level + 1)
                           ELSE b0
                   ELSE b
         IN send_larger_from(node_id, st, b1, todo_level + 1)

\* check_completed_level
check_completed_level(node_id, st, b, todo_level) ==
    IF todo_level \notin LevelIds THEN b
    ELSE IF b.levels[todo_level].receive_completed THEN b
    ELSE IF best(st, todo_level) = {} THEN [b EXCEPT !.panic = TRUE]
    ELSE LET best_ms == CHOOSE x \in best(st, todo_level) : TRUE
             b1 == IF len(best_ms) = num_peers(node_id, todo_level)
                   THEN LET b0 == [b EXCEPT !.levels[todo_level].receive_completed = TRUE]
                        IN IF todo_level + 1 < L
                           THEN start_level(node_id, st, b0, todo_level + 1)
                           ELSE b0
                   ELSE b
         IN send_larger_from(node_id, st, b1, todo_level + 1)

\* Todo
TodoIndividual(signature, level, origin) ==
    [kind |-> "Individual", signature |-> signature, level |-> level, origin |-> origin]

TodoMulti(signature, level, votes) ==
    [kind |-> "Multi", signature |-> signature, level |-> level, votes |-> votes]

\* Todo::evaluate
evaluate(todo, st) ==
    IF todo.kind = "Multi"
    THEN evaluate_multisig(st, todo.signature, todo.level, todo.votes)
    ELSE evaluate_individual(st, todo.signature, todo.level, todo.origin)

\* Todo::put
put(todo, st) ==
    IF todo.kind = "Individual"
    THEN put_individual(st, todo.signature, todo.level, todo.origin)
    ELSE put_multisig(st, todo.signature, todo.level)

\* the scan of get_best_todo with >= for >: the last todo of the maximum score
RECURSIVE best_i_last(_, _)
best_i_last(queue, st) ==
    IF Len(queue) = 1 THEN 1
    ELSE LET i == Len(queue)
             prev == best_i_last(SubSeq(queue, 1, i - 1), st)
         IN IF evaluate(queue[i], st) >= evaluate(queue[prev], st) THEN i ELSE prev

\* get_best_todo, the scan: best_i starts at the first todo and moves to a
\* later one only when its score is greater than the best score so far
RECURSIVE best_i(_, _)
best_i(queue, st) ==
    IF Len(queue) = 1 THEN 1
    ELSE LET i == Len(queue)
             prev == best_i(SubSeq(queue, 1, i - 1), st)
         IN IF evaluate(queue[i], st) > evaluate(queue[prev], st) THEN i ELSE prev

\* get_best_todo returning the best todo without taking it out of the queue
swap_keep(queue, i) == queue

\* Vec::swap_remove (1-based)
swap_remove(queue, i) ==
    LET n == Len(queue)
    IN [j \in 1 .. (n - 1) |-> IF j = i THEN queue[n] ELSE queue[j]]

\* --------------------------------------------------------------- Verifier

RECURSIVE SumWeights(_)
SumWeights(ids) ==
    IF ids = {} THEN 0
    ELSE LET id == CHOOSE x \in ids : TRUE
         IN config.weight[id] + SumWeights(ids \ {id})

\* DummyVerifier::verify_individual
verify_individual(signature, signer) == [kind |-> "Ok", votes |-> 1]

\* DummyVerifier::verify_multisig
verify_multisig(signature, check_threshold) ==
    IF \E signer \in signature.signers : signer \notin Roster
    THEN [kind |-> "UnknownSigner", votes |-> 0]
    ELSE LET votes == SumWeights(signature.signers)
         IN IF check_threshold /\ votes < config.threshold
            THEN [kind |-> "ThresholdNotReached", votes |-> len(signature)]
            ELSE [kind |-> "Ok", votes |-> votes]

\* ---------------------------------------------------------------- actions

NoPanic(n, task) == task \notin panicked[n]

PanicIn(n, task) == panicked' = [panicked EXCEPT ![n] = @ \cup {task}]

\* the datagrams a step of agent n puts on its sink; the socket sends them, and
\* those addressed to an agent that is not running are lost
Emit(n, out) == net' = net \cup {d \in out : d.to \in live}

EmptyEffect(n) == [levels |-> levels[n], out |-> {}, panic |-> FALSE]

\* on_message without the test of done
OnMessage_not_done(n, message) ==
    /\ NoPanic(n, "recv")
    /\ recv[n].pc = "idle"
    /\ LET level == message.level
           dropped == level \in LevelIds /\ levels[n][level].receive_completed
           m == verify_multisig(message.multisig, FALSE)
           multi == IF m.kind = "Ok"
                    THEN <<TodoMulti(message.multisig, level, m.votes)>>
                    ELSE <<>>
           indiv == IF message.individual # {}
                    THEN LET sig == CHOOSE x \in message.individual : TRUE
                         IN IF verify_individual(sig, message.origin).kind = "Ok"
                            THEN <<TodoIndividual(sig, level, message.origin)>>
                            ELSE <<>>
                    ELSE <<>>
       IN /\ todos' = [todos EXCEPT ![n] = IF dropped THEN @ ELSE @ \o multi \o indiv]
          /\ recv' = [recv EXCEPT ![n] =
                        [pc |-> IF dropped THEN "idle" ELSE "get",
                         todo |-> {},
                         message |-> {message},
                         dropped |-> dropped,
                         seq |-> 1 - @.seq]]
    /\ UNCHANGED <<standalone, config, live, done, store, levels, result_sender, result,
                   init, next_timeout, panicked>>

\* on_message pushing the multi-signature whatever its verification returned
OnMessage_unverified(n, message) ==
    /\ NoPanic(n, "recv")
    /\ recv[n].pc = "idle"
    /\ LET level == message.level
           dropped ==
               \/ done[n]
               \/ level \in LevelIds /\ levels[n][level].receive_completed
           multi == <<TodoMulti(message.multisig, level, len(message.multisig))>>
           indiv == IF message.individual # {}
                    THEN LET sig == CHOOSE x \in message.individual : TRUE
                         IN IF verify_individual(sig, message.origin).kind = "Ok"
                            THEN <<TodoIndividual(sig, level, message.origin)>>
                            ELSE <<>>
                    ELSE <<>>
       IN /\ todos' = [todos EXCEPT ![n] = IF dropped THEN @ ELSE @ \o multi \o indiv]
          /\ recv' = [recv EXCEPT ![n] =
                        [pc |-> IF dropped THEN "idle" ELSE "get",
                         todo |-> {},
                         message |-> {message},
                         dropped |-> dropped,
                         seq |-> 1 - @.seq]]
    /\ UNCHANGED <<standalone, config, live, done, store, levels, result_sender, result,
                   init, next_timeout, panicked>>

\* on_message up to the start of the drain loop: the done and level checks, the
\* two verifications and their pushes
OnMessage(n, message) ==
    /\ NoPanic(n, "recv")
    /\ recv[n].pc = "idle"
    /\ LET level == message.level
           dropped ==
               \/ done[n]
               \/ level \in LevelIds /\ levels[n][level].receive_completed
           m == verify_multisig(message.multisig, FALSE)
           multi == IF m.kind = "Ok"
                    THEN <<TodoMulti(message.multisig, level, m.votes)>>
                    ELSE <<>>
           indiv == IF message.individual # {}
                    THEN LET sig == CHOOSE x \in message.individual : TRUE
                         IN IF verify_individual(sig, message.origin).kind = "Ok"
                            THEN <<TodoIndividual(sig, level, message.origin)>>
                            ELSE <<>>
                    ELSE <<>>
       IN /\ todos' = [todos EXCEPT ![n] = IF dropped THEN @ ELSE @ \o multi \o indiv]
          /\ recv' = [recv EXCEPT ![n] =
                        [pc |-> IF dropped THEN "idle" ELSE "get",
                         todo |-> {},
                         message |-> {message},
                         dropped |-> dropped,
                         seq |-> 1 - @.seq]]
    /\ UNCHANGED <<standalone, config, live, done, store, levels, result_sender, result,
                   init, next_timeout, panicked>>

\* on_message without the test of receive_completed
OnMessageStart_completed(n, message) ==
    /\ NoPanic(n, "recv")
    /\ recv[n].pc = "idle"
    /\ LET level == message.level
           dropped == done[n]
       IN recv' = [recv EXCEPT ![n] =
                     [pc |-> IF dropped THEN "idle" ELSE "verify",
                      todo |-> {},
                      message |-> {message},
                      dropped |-> dropped,
                      seq |-> 1 - @.seq]]
    /\ UNCHANGED <<standalone, config, live, done, todos, store, levels, result_sender,
                   result, init, next_timeout, panicked>>

\* on_message up to the creation of the two verification futures: the done and
\* level checks
OnMessageStart(n, message) ==
    /\ NoPanic(n, "recv")
    /\ recv[n].pc = "idle"
    /\ LET level == message.level
           dropped ==
               \/ done[n]
               \/ level \in LevelIds /\ levels[n][level].receive_completed
       IN recv' = [recv EXCEPT ![n] =
                     [pc |-> IF dropped THEN "idle" ELSE "verify",
                      todo |-> {},
                      message |-> {message},
                      dropped |-> dropped,
                      seq |-> 1 - @.seq]]
    /\ UNCHANGED <<standalone, config, live, done, todos, store, levels, result_sender,
                   result, init, next_timeout, panicked>>

\* multisig_fut.join(individual_fut) that resolves with the first of the two
Joined_first(pc, fut) == "get"

\* multisig_fut.join(individual_fut): where the receive task stands once fut
\* has completed.  "verify" waits for both, "verify_m" for multisig_fut,
\* "verify_i" for individual_fut; the drain loop starts at "get"
Joined(pc, fut) ==
    IF pc = "verify"
    THEN (IF fut = "multisig" THEN "verify_i" ELSE "verify_m")
    ELSE "get"

\* multisig_fut completes on the verifier's pool
MultisigFut(n) ==
    /\ NoPanic(n, "recv")
    /\ recv[n].pc \in {"verify", "verify_m"}
    /\ \E message \in recv[n].message :
          LET m == verify_multisig(message.multisig, FALSE)
          IN todos' = [todos EXCEPT ![n] =
                         IF m.kind = "Ok"
                         THEN Append(@, TodoMulti(message.multisig, message.level, m.votes))
                         ELSE @]
    /\ recv' = [recv EXCEPT ![n].pc = Joined(@, "multisig")]
    /\ UNCHANGED <<standalone, config, live, done, store, levels, result_sender, result,
                   init, next_timeout, panicked, net, injected, feed>>

\* individual_fut completes on the verifier's pool, or at once without an
\* individual signature
IndividualFut(n) ==
    /\ NoPanic(n, "recv")
    /\ recv[n].pc \in {"verify", "verify_i"}
    /\ \E message \in recv[n].message :
          todos' = [todos EXCEPT ![n] =
                      IF /\ message.individual # {}
                         /\ \A sig \in message.individual :
                               verify_individual(sig, message.origin).kind = "Ok"
                      THEN Append(@, TodoIndividual(CHOOSE x \in message.individual : TRUE,
                                                    message.level, message.origin))
                      ELSE @]
    /\ recv' = [recv EXCEPT ![n].pc = Joined(@, "individual")]
    /\ UNCHANGED <<standalone, config, live, done, store, levels, result_sender, result,
                   init, next_timeout, panicked, net, injected, feed>>

\* the receive task after the future of on_message has completed
Returned(r) == [r EXCEPT !.pc = "idle", !.todo = {}, !.message = {}]

\* the drain loop: get_best_todo
GetBestTodo(n) ==
    /\ NoPanic(n, "recv")
    /\ recv[n].pc = "get"
    /\ LET queue == todos[n]
           st == store[n]
       IN IF queue = <<>>
          THEN /\ recv' = [recv EXCEPT ![n] = Returned(@)]
               /\ UNCHANGED <<todos, panicked>>
          ELSE IF \E j \in 1 .. Len(queue) : evaluate(queue[j], st) = Panic
          THEN /\ PanicIn(n, "recv")
               /\ UNCHANGED <<todos, recv>>
          ELSE LET i == best_i(queue, st)
               IN IF evaluate(queue[i], st) > 0
                  THEN /\ todos' = [todos EXCEPT ![n] = swap_remove(queue, i)]
                       /\ recv' = [recv EXCEPT ![n].pc = "put", ![n].todo = {queue[i]}]
                       /\ UNCHANGED panicked
                  ELSE /\ recv' = [recv EXCEPT ![n] = Returned(@)]
                       /\ UNCHANGED <<todos, panicked>>
    /\ UNCHANGED <<standalone, config, live, done, store, levels, result_sender, result,
                   init, next_timeout, injected, feed>>
    /\ Emit(n, {})

\* the drain loop dropping the todo it took: the store is left as it was
ApplyPut_skipped(n, task, todo) == UNCHANGED <<store, panicked>>

\* todo.put(store) of a task
ApplyPut(n, task, todo) ==
    \E r \in {put(todo, store[n])} :
       IF r.panic
       THEN PanicIn(n, task) /\ UNCHANGED store
       ELSE store' = [store EXCEPT ![n] = r.store] /\ UNCHANGED panicked

\* check_completed_level of a task
ApplyCheckCompletedLevel(n, task, todo) ==
    \E b \in {check_completed_level(n, store[n], EmptyEffect(n), todo.level)} :
       /\ levels' = [levels EXCEPT ![n] = b.levels]
       /\ Emit(n, b.out)
       /\ IF b.panic THEN PanicIn(n, task) ELSE UNCHANGED panicked

\* check_final_signature that sends the result without setting done
ApplyCheckFinalSignature_undone(n, task) ==
    \E c \in {combined(store[n], L - 1)} :
       IF c.panic
       THEN PanicIn(n, task) /\ UNCHANGED <<done, result_sender, result>>
       ELSE /\ UNCHANGED panicked
            /\ IF /\ c.value # {}
                  /\ len(CHOOSE x \in c.value : TRUE) > config.threshold
                  /\ result_sender[n]
               THEN /\ result_sender' = [result_sender EXCEPT ![n] = FALSE]
                    /\ UNCHANGED done
                    /\ result' = [result EXCEPT ![n] =
                                    Append(@, CHOOSE x \in c.value : TRUE)]
               ELSE UNCHANGED <<done, result_sender, result>>

\* check_final_signature without the test of the result sender
ApplyCheckFinalSignature_resend(n, task) ==
    \E c \in {combined(store[n], L - 1)} :
       IF c.panic
       THEN PanicIn(n, task) /\ UNCHANGED <<done, result_sender, result>>
       ELSE /\ UNCHANGED panicked
            /\ IF /\ c.value # {}
                  /\ len(CHOOSE x \in c.value : TRUE) > config.threshold
               THEN /\ result_sender' = [result_sender EXCEPT ![n] = FALSE]
                    /\ done' = [done EXCEPT ![n] = TRUE]
                    /\ result' = [result EXCEPT ![n] =
                                    Append(@, CHOOSE x \in c.value : TRUE)]
               ELSE UNCHANGED <<done, result_sender, result>>

\* check_final_signature of a task
ApplyCheckFinalSignature(n, task) ==
    \E c \in {combined(store[n], L - 1)} :
       IF c.panic
       THEN PanicIn(n, task) /\ UNCHANGED <<done, result_sender, result>>
       ELSE /\ UNCHANGED panicked
            /\ IF /\ c.value # {}
                  /\ len(CHOOSE x \in c.value : TRUE) > config.threshold
                  /\ result_sender[n]
               THEN /\ result_sender' = [result_sender EXCEPT ![n] = FALSE]
                    /\ done' = [done EXCEPT ![n] = TRUE]
                    /\ result' = [result EXCEPT ![n] =
                                    Append(@, CHOOSE x \in c.value : TRUE)]
               ELSE UNCHANGED <<done, result_sender, result>>

CurrentTodo(n) == CHOOSE t \in recv[n].todo : TRUE

\* the drain loop: todo.put
DrainPut(n) ==
    /\ NoPanic(n, "recv")
    /\ recv[n].pc = "put"
    /\ ApplyPut(n, "recv", CurrentTodo(n))
    /\ recv' = [recv EXCEPT ![n].pc = "ccl"]
    /\ UNCHANGED <<standalone, config, live, done, todos, levels, result_sender, result,
                   init, next_timeout, injected, feed>>
    /\ Emit(n, {})

\* the drain loop: check_completed_level
DrainCheckCompletedLevel(n) ==
    /\ NoPanic(n, "recv")
    /\ recv[n].pc = "ccl"
    /\ ApplyCheckCompletedLevel(n, "recv", CurrentTodo(n))
    /\ recv' = [recv EXCEPT ![n].pc = "cfs"]
    /\ UNCHANGED <<standalone, config, live, done, todos, store, result_sender, result,
                   init, next_timeout, injected, feed>>

\* the drain loop: check_final_signature
DrainCheckFinalSignature(n) ==
    /\ NoPanic(n, "recv")
    /\ recv[n].pc = "cfs"
    /\ ApplyCheckFinalSignature(n, "recv")
    /\ recv' = [recv EXCEPT ![n].pc = "get"]
    /\ UNCHANGED <<standalone, config, live, todos, store, levels,
                   init, next_timeout, injected, feed>>
    /\ Emit(n, {})

\* the startup future
OwnTodo(n) == TodoIndividual(individual(n), 0, n)

InitPut(n) ==
    /\ NoPanic(n, "init")
    /\ init[n] = "put"
    /\ ApplyPut(n, "init", OwnTodo(n))
    /\ init' = [init EXCEPT ![n] = "ccl"]
    /\ UNCHANGED <<standalone, config, live, done, todos, levels, result_sender, result,
                   recv, next_timeout, injected, feed>>
    /\ Emit(n, {})

InitCheckCompletedLevel(n) ==
    /\ NoPanic(n, "init")
    /\ init[n] = "ccl"
    /\ ApplyCheckCompletedLevel(n, "init", OwnTodo(n))
    /\ init' = [init EXCEPT ![n] = "cfs"]
    /\ UNCHANGED <<standalone, config, live, done, todos, store, result_sender, result,
                   recv, next_timeout, injected, feed>>

InitCheckFinalSignature(n) ==
    /\ NoPanic(n, "init")
    /\ init[n] = "cfs"
    /\ ApplyCheckFinalSignature(n, "init")
    /\ init' = [init EXCEPT ![n] = "send"]
    /\ UNCHANGED <<standalone, config, live, todos, store, levels,
                   recv, next_timeout, injected, feed>>
    /\ Emit(n, {})

InitSend(n) ==
    /\ NoPanic(n, "init")
    /\ init[n] = "send"
    /\ \E b \in {send_update(n, EmptyEffect(n),
                               from_individual(individual(n), n), 0, PeerCount)} :
          /\ levels' = [levels EXCEPT ![n] = b.levels]
          /\ Emit(n, b.out)
    /\ init' = [init EXCEPT ![n] = "finished"]
    /\ UNCHANGED <<standalone, config, live, done, todos, store, result_sender, result,
                   recv, next_timeout, panicked, injected, feed>>

\* on_update
OnUpdate(n) ==
    /\ NoPanic(n, "update")
    /\ \E b \in {on_update_from(n, store[n], EmptyEffect(n), 1)} :
          /\ levels' = [levels EXCEPT ![n] = b.levels]
          /\ Emit(n, b.out)
          /\ IF b.panic THEN PanicIn(n, "update") ELSE UNCHANGED panicked
    /\ UNCHANGED <<standalone, config, live, done, todos, store, result_sender, result,
                   recv, init, next_timeout, injected, feed>>

\* on_timeout of the next level of the timeout stream
OnTimeout(n) ==
    /\ NoPanic(n, "timeout")
    /\ next_timeout[n] < L
    /\ \E b \in {start_level(n, store[n], EmptyEffect(n), next_timeout[n])} :
          /\ levels' = [levels EXCEPT ![n] = b.levels]
          /\ Emit(n, b.out)
          /\ IF b.panic THEN PanicIn(n, "timeout") ELSE UNCHANGED panicked
    /\ next_timeout' = [next_timeout EXCEPT ![n] = @ + 1]
    /\ UNCHANGED <<standalone, config, live, done, todos, store, result_sender, result,
                   recv, init, injected, feed>>

\* ------------------------------------- the partitioner of partitioner.rs

\* the bit width of usize less x.leading_zeros()
RECURSIVE bit_length(_)
bit_length(x) == IF x = 0 THEN 0 ELSE 1 + bit_length(x \div 2)

\* utils::log_2
log_2(x) == bit_length(x) - 1

\* BinomialPartitioner::new(node_id, identities), identities.len() = size
NewPartitioner(node_id, size) ==
    [node_id |-> node_id, max_level |-> log_2(size), size |-> size]

\* Result<(usize, usize), PartitioningError>, or the panic of the caller
RangeResult(kind, min, max) == [kind |-> kind, min |-> min, max |-> max]

\* the while loop of range_level from index i on: [panic, min, max].  i is a
\* usize: i -= 1 at 0 panics in a build that checks overflow and otherwise
\* wraps to usize::MAX, which exceeds inverse_idx and ends the loop
RECURSIVE range_loop(_, _, _, _, _, _)
range_loop(p, checks, inverse_idx, i, min, max) ==
    IF ~(i <= inverse_idx /\ min < max)
    THEN [panic |-> FALSE, min |-> min, max |-> max]
    ELSE LET middle == (max + min) \div 2
             bit    == (p.node_id \div Pow2(i)) % 2
             lower  == (bit = 1) = (i = inverse_idx)
             min1   == IF lower THEN min ELSE middle
             max1   == IF lower THEN middle ELSE max
         IN IF i = 0
            THEN [panic |-> checks, min |-> min1, max |-> max1]
            ELSE range_loop(p, checks, inverse_idx, i - 1, min1, max1)

\* BinomialPartitioner::range_level; max starts at max_level.pow(2), and
\* max_level - 1 at max_level = 0 overflows like i -= 1 does
range_level(p, checks, level) ==
    IF level = 0 THEN RangeResult("Ok", p.node_id, p.node_id)
    ELSE IF level > p.max_level + 1 THEN RangeResult("InvalidLevel", 0, 0)
    ELSE LET r == IF p.max_level = 0
                  THEN [panic |-> checks, min |-> 0, max |-> 0]
                  ELSE range_loop(p, checks, level - 1, p.max_level - 1,
                                  0, p.max_level * p.max_level)
         IN IF r.panic THEN RangeResult("Panic", 0, 0)
            ELSE IF r.min >= p.size THEN RangeResult("EmptyLevel", 0, 0)
            ELSE RangeResult("Ok", r.min, Min(r.max, p.size))

\* IdentityRegistry::get_by_id_range over the identities 0 .. size - 1
get_by_id_range(size, min, max) == {id \in 0 .. size - 1 : min <= id /\ id < max}

\* BinomialPartitioner::identities_at: [kind, ids]
identities_at(p, checks, level) ==
    LET r == range_level(p, checks, level)
    IN [kind |-> r.kind,
        ids  |-> IF r.kind = "Ok" THEN get_by_id_range(p.size, r.min, r.max) ELSE {}]

\* a caller asks for the identities of a level; a panic ends the caller
IdentitiesAt ==
    /\ \A l \in DOMAIN ranges : ranges[l].kind # "Panic"
    /\ \E p \in partitioner :
       \E level \in (0 .. p.max_level + 2) \ DOMAIN ranges :
          ranges' = (level :> identities_at(p, overflow_checks, level)) @@ ranges
    /\ UNCHANGED <<config, live, done, todos, store, levels, result_sender, result,
                   recv, init, next_timeout, panicked, net, injected, feed,
                   overflow_checks, partitioner, udp, sink, locks>>

\* ------------------------------------- the UDP receive task of network.rs

\* a datagram: the frame size its first two bytes announce and what the rest
\* deserialises to
Frames == [frame_size : {MaxFrameSize, MaxFrameSize + 1},
           payload : {"message", "garbage"}]

\* Codec::decode of a datagram in the read buffer
decode(frame) ==
    IF frame.frame_size > MaxFrameSize THEN [kind |-> "Err", item |-> {}]
    ELSE IF frame.payload = "message"
    THEN [kind |-> "Ok", item |-> {frame}]
    ELSE [kind |-> "Err", item |-> {}]

\* UdpNetwork::connect before a datagram has arrived: the socket is bound and
\* recv_spawn runs
NoUdp == [socket |-> <<>>, read |-> 0, recv_spawn |-> "running",
          handled |-> <<>>, received_count |-> 0]

\* a datagram arrives at the socket
Arrive ==
    /\ Len(udp.socket) + udp.read < MaxFrames
    /\ \E frame \in Frames : udp' = [udp EXCEPT !.socket = Append(@, frame)]
    /\ UNCHANGED <<config, live, done, todos, store, levels, result_sender, result,
                   recv, init, next_timeout, panicked, net, injected, feed,
                   overflow_checks, partitioner, ranges, sink, locks>>

\* recv_spawn: stream.for_each polls the framed socket, which reads a
\* datagram and decodes it; an item goes to handler.on_message, an error of
\* the stream ends for_each and or_else completes the task
Poll ==
    /\ udp.recv_spawn = "running"
    /\ udp.socket # <<>>
    /\ \E r \in {decode(Head(udp.socket))} :
          udp' = IF r.kind = "Ok"
                 THEN [udp EXCEPT !.socket = Tail(@),
                                  !.read = @ + 1,
                                  !.received_count = @ + 1,
                                  !.handled = Append(@, Head(udp.socket))]
                 ELSE [udp EXCEPT !.socket = Tail(@),
                                  !.read = @ + 1,
                                  !.recv_spawn = "finished"]
    /\ UNCHANGED <<config, live, done, todos, store, levels, result_sender, result,
                   recv, init, next_timeout, panicked, net, injected, feed,
                   overflow_checks, partitioner, ranges, sink, locks>>

\* ------------------------------------------------------------ environment

Datagram(to, origin, level, signers, indiv) ==
    [to |-> to, origin |-> origin, level |-> level,
     multisig |-> [signature |-> SetToBag(signers), signers |-> signers],
     individual |-> indiv]

\* what the environment sends to agent 0 of a roster of four
Alphabet ==
    { Datagram(0, 1, 1, {1}, {1}),
      Datagram(0, 2, 2, {2}, {2}),
      Datagram(0, 3, 2, {2, 3}, {}),
      Datagram(0, 3, 2, {3}, {3}),
      Datagram(0, 1, 3, {1}, {}),
      Datagram(0, 1, 1, {4}, {1}),
      Datagram(0, 2, 1, {2}, {}),
      Datagram(0, 1, 0, {0}, {}) }

\* a datagram of the environment arrives
Inject ==
    /\ injected < MaxInject
    /\ \E n \in live, message \in Alphabet :
          /\ message.to = n
          /\ OnMessage(n, message)
          /\ Emit(n, {})
    /\ injected' = injected + 1
    /\ UNCHANGED feed

\* a datagram of the environment arrives and its verifications are started
Receive ==
    /\ injected < MaxInject
    /\ \E n \in live, message \in Alphabet :
          /\ message.to = n
          /\ OnMessageStart(n, message)
    /\ injected' = injected + 1
    /\ UNCHANGED <<net, feed>>

\* a datagram of the network arrives
Deliver ==
    \E d \in net :
       /\ d.to \in live
       /\ OnMessage(d.to, d)
       /\ net' = net \ {d}
       /\ UNCHANGED <<injected, feed>>

\* a datagram of the network is lost
Lose ==
    \E d \in net :
       /\ net' = net \ {d}
       /\ UNCHANGED <<standalone, config, live, done, todos, store, levels, result_sender,
                      result, recv, init, next_timeout, panicked, injected, feed>>

\* the scripted peer delivers its next datagram
Feed ==
    /\ feed # <<>>
    /\ OnMessage(Head(feed).to, Head(feed))
    /\ Emit(Head(feed).to, {})
    /\ feed' = Tail(feed)
    /\ UNCHANGED injected

\* --------------------------------------------------------- specifications

UnitWeights(max_id) == [id \in 0 .. max_id |-> 1]

\* send_to on its own: the loop over the selected peer ids.  No call yet
NoSink == [node_id |-> 0, to |-> <<>>, pos |-> 1, sent |-> {}]

\* the message send_to builds for level 1
SinkMessage(node_id, to) ==
    [to |-> to, origin |-> node_id, level |-> 1,
     multisig |-> from_individual(individual(node_id), node_id), individual |-> {}]

\* send_to whose loop ends at the first id that is not in the registry
SendToNext_abort ==
    /\ sink.pos <= Len(sink.to)
    /\ LET id == sink.to[sink.pos]
       IN sink' = IF id = sink.node_id
                  THEN [sink EXCEPT !.pos = @ + 1]
                  ELSE IF id \in Roster
                  THEN [sink EXCEPT !.pos = @ + 1,
                                    !.sent = @ \cup {SinkMessage(sink.node_id, id)}]
                  ELSE [sink EXCEPT !.pos = Len(sink.to) + 1]
    /\ UNCHANGED <<config, live, done, todos, store, levels, result_sender, result,
                   recv, init, next_timeout, panicked, net, injected, feed,
                   overflow_checks, partitioner, ranges, udp, locks>>

\* send_to, one pass of `for id in to`: the node's own id is passed over, the
\* message goes to the address of a registered id, an id the registry does
\* not know is logged
SendToNext ==
    /\ sink.pos <= Len(sink.to)
    /\ LET id == sink.to[sink.pos]
       IN sink' = IF id = sink.node_id
                  THEN [sink EXCEPT !.pos = @ + 1]
                  ELSE IF id \in Roster
                  THEN [sink EXCEPT !.pos = @ + 1,
                                    !.sent = @ \cup {SinkMessage(sink.node_id, id)}]
                  ELSE [sink EXCEPT !.pos = @ + 1]
    /\ UNCHANGED <<config, live, done, todos, store, levels, result_sender, result,
                   recv, init, next_timeout, panicked, net, injected, feed,
                   overflow_checks, partitioner, ranges, udp, locks>>

\* the locks on their own.  The tasks of an agent that run on the thread pool
LockTasks == {"init", "recv", "update", "timeout"}

\* no task has started: the agent lock (state) has no reader, no writer and
\* no thread parked for writing, no level lock is held for writing
NoLocks ==
    [pc |-> [task \in LockTasks |-> 1],
     readers |-> [task \in LockTasks |-> 0],
     writer |-> {},
     waiting |-> {},
     level |-> [l \in 0 .. 2 |-> {}]]

\* select_next_peers and the read of receive_completed in send_update
SendUpdateLocks(l) == <<<<"level_touch", l>>, <<"level_touch", l>>>>

\* start_level(l): level.start(), then, above level 0, state.read() kept
\* until send_update has returned
StartLevelLocks(l) ==
    <<<<"level_touch", l>>>>
       \o (IF l > 0
           THEN <<<<"read", 0>>>> \o SendUpdateLocks(l) \o <<<<"unlock_read", 0>>>>
           ELSE <<>>)

\* the lock operations of a task of an agent of three levels, in program
\* order: the startup future (put of the own signature, then
\* check_completed_level of level 0, which completes), the two pushes of
\* on_message, on_update, and the timeouts of the levels 0, 1, 2
Program(task) ==
    CASE task = "init" ->
            <<<<"request_write", 0>>, <<"write", 0>>, <<"unlock_write", 0>>,
              <<"read", 0>>, <<"level_write", 0>>>>
               \o StartLevelLocks(1)
               \o <<<<"level_unlock", 0>>, <<"level_touch", 1>>, <<"level_touch", 2>>,
                    <<"unlock_read", 0>>>>
      [] task = "recv" ->
            <<<<"request_write", 0>>, <<"write", 0>>, <<"unlock_write", 0>>,
              <<"request_write", 0>>, <<"write", 0>>, <<"unlock_write", 0>>>>
      [] task = "update" ->
            <<<<"read", 0>>>> \o SendUpdateLocks(1) \o SendUpdateLocks(2)
               \o <<<<"unlock_read", 0>>>>
      [] task = "timeout" ->
            StartLevelLocks(0) \o StartLevelLocks(1) \o StartLevelLocks(2)

\* the task has run to its end
Finished(task) == locks.pc[task] > Len(Program(task))

\* RwLock of parking_lot: the next operation of the task does not block.
\* read() blocks while a writer holds the lock or a thread is parked for
\* writing, also for a thread that holds a read lock already; write()
\* blocks while there is a reader or a writer
Ready(task) ==
    /\ ~Finished(task)
    /\ LET op == Program(task)[locks.pc[task]]
       IN CASE op[1] = "read" -> locks.writer = {} /\ locks.waiting = {}
            [] op[1] = "write" ->
                  /\ locks.writer = {}
                  /\ \A t \in LockTasks : locks.readers[t] = 0
            [] op[1] \in {"level_write", "level_touch"} ->
                  locks.level[op[2]] \subseteq {task}
            [] OTHER -> TRUE

\* the locks after the next operation of the task
Locked(task) ==
    LET op == Program(task)[locks.pc[task]]
        st == [locks EXCEPT !.pc[task] = @ + 1]
    IN CASE op[1] = "request_write" -> [st EXCEPT !.waiting = @ \cup {task}]
         [] op[1] = "write" -> [st EXCEPT !.waiting = @ \ {task}, !.writer = {task}]
         [] op[1] = "unlock_write" -> [st EXCEPT !.writer = {}]
         [] op[1] = "read" -> [st EXCEPT !.readers[task] = @ + 1]
         [] op[1] = "unlock_read" -> [st EXCEPT !.readers[task] = @ - 1]
         [] op[1] = "level_write" -> [st EXCEPT !.level[op[2]] = {task}]
         [] op[1] = "level_unlock" -> [st EXCEPT !.level[op[2]] = {}]
         [] OTHER -> st

\* a task performs its next lock operation
LockStep(task) ==
    /\ Ready(task)
    /\ locks' = Locked(task)
    /\ UNCHANGED <<config, live, done, todos, store, levels, result_sender, result,
                   recv, init, next_timeout, panicked, net, injected, feed,
                   overflow_checks, partitioner, ranges, udp, sink>>

\* the agents run without the standalone components
NoStandalone ==
    /\ overflow_checks = FALSE
    /\ partitioner = {}
    /\ ranges = EmptyMap
    /\ udp = NoUdp
    /\ sink = NoSink
    /\ locks = NoLocks

InitAgents(cfg, agents, script) ==
    /\ config = cfg
    /\ live = agents
    /\ done = [n \in agents |-> FALSE]
    /\ todos = [n \in agents |-> <<>>]
    /\ store = [n \in agents |->
                  [best_level |-> 0,
                   individual_verified |-> [l \in 0 .. NumLevels(cfg.max_id) - 1 |-> {}],
                   individual_signatures |-> [l \in 0 .. NumLevels(cfg.max_id) - 1 |-> EmptyMap],
                   multisig_best |-> EmptyMap]]
    /\ levels = [n \in agents |->
                  [l \in 0 .. NumLevels(cfg.max_id) - 1 |->
                     [send_started |-> (l = 0),
                      receive_completed |-> FALSE,
                      send_peers_pos |-> 0,
                      send_signature_size |-> 0,
                      send_peers_count |-> 0]]]
    /\ result_sender = [n \in agents |-> TRUE]
    /\ result = [n \in agents |-> <<>>]
    /\ recv = [n \in agents |-> [pc |-> "idle", todo |-> {}, message |-> {}, dropped |-> FALSE, seq |-> 0]]
    /\ init = [n \in agents |-> "put"]
    /\ next_timeout = [n \in agents |-> 0]
    /\ panicked = [n \in agents |-> {}]
    /\ net = {}
    /\ injected = 0
    /\ feed = script

InitWith(cfg, agents, script) == NoStandalone /\ InitAgents(cfg, agents, script)

\* one agent of a roster of four, fed by the environment
Init ==
    \E threshold \in {0, 1} :
        InitWith([max_id |-> 3, threshold |-> threshold, weight |-> UnitWeights(3)],
                 {0}, <<>>)

Next ==
    \/ Inject
    \/ \E n \in live : GetBestTodo(n)
    \/ \E n \in live : DrainPut(n)
    \/ \E n \in live : DrainCheckCompletedLevel(n)
    \/ \E n \in live : DrainCheckFinalSignature(n)
    \/ \E n \in live : InitPut(n)
    \/ \E n \in live : InitCheckCompletedLevel(n)
    \/ \E n \in live : InitCheckFinalSignature(n)
    \/ \E n \in live : InitSend(n)
    \/ \E n \in live : OnUpdate(n)
    \/ \E n \in live : OnTimeout(n)

Spec == Init /\ [][Next]_vars

\* one agent of a roster of four in which identity 0 weighs 2
HeavyWeights(max_id) == [id \in 0 .. max_id |-> IF id = 0 THEN 2 ELSE 1]

InitWeighted ==
    \E threshold \in {0, 1} :
        InitWith([max_id |-> 3, threshold |-> threshold, weight |-> HeavyWeights(3)],
                 {0}, <<>>)

SpecWeighted == InitWeighted /\ [][Next]_vars

\* agent 0 of a roster of eight with threshold 6, fed the individual signatures
\* of ids 1..7 in order, each at its level and wrapped as a multi-signature
ScenarioLevel(id) == IF id = 1 THEN 1 ELSE IF id <= 3 THEN 2 ELSE 3

ScenarioFeed == [k \in 1 .. 7 |-> Datagram(0, k, ScenarioLevel(k), {k}, {k})]

InitScenario ==
    InitWith([max_id |-> 7, threshold |-> 6, weight |-> UnitWeights(7)],
             {0}, ScenarioFeed)

NextScenario ==
    \/ Feed
    \/ \E n \in live : GetBestTodo(n)
    \/ \E n \in live : DrainPut(n)
    \/ \E n \in live : DrainCheckCompletedLevel(n)
    \/ \E n \in live : DrainCheckFinalSignature(n)
    \/ \E n \in live : InitPut(n)
    \/ \E n \in live : InitCheckCompletedLevel(n)
    \/ \E n \in live : InitCheckFinalSignature(n)
    \/ \E n \in live : InitSend(n)
    \/ \E n \in live : OnUpdate(n)
    \/ \E n \in live : OnTimeout(n)

SpecScenario == InitScenario /\ [][NextScenario]_vars

\* agent 0 of a roster of four receives a datagram of the environment and then
\* twice the same datagram
InitTwice ==
    \E threshold \in {0, 1}, first \in Alphabet, message \in Alphabet :
        InitWith([max_id |-> 3, threshold |-> threshold, weight |-> UnitWeights(3)],
                 {0}, <<first, message, message>>)

SpecTwice == InitTwice /\ [][NextScenario]_vars

\* what the peers of level 3 send to agent 0 of a roster of eight: aggregates
\* they hold, with or without the individual signature of the sender
Aggregates ==
    { Datagram(0, 5, 3, {4, 5}, {5}),
      Datagram(0, 4, 3, {4, 6, 7}, {}),
      Datagram(0, 4, 3, {4}, {4}),
      Datagram(0, 6, 3, {6, 7}, {6}),
      Datagram(0, 7, 3, {4, 5, 6, 7}, {}) }

\* agent 0 of a roster of eight with threshold 6 receives two of them
InitAggregates ==
    \E first \in Aggregates, second \in Aggregates :
        InitWith([max_id |-> 7, threshold |-> 6, weight |-> UnitWeights(7)],
                 {0}, <<first, second>>)

SpecAggregates == InitAggregates /\ [][NextScenario]_vars

\* what a sender outside the roster of four (origin 4) sends to agent 0, next
\* to a datagram of peer 1
Strangers ==
    { Datagram(0, 4, 1, {1}, {4}),
      Datagram(0, 4, 2, {2, 3}, {4}),
      Datagram(0, 4, 1, {4}, {4}),
      Datagram(0, 1, 1, {1}, {1}) }

\* agent 0 of a roster of four receives two of them
InitStrangers ==
    \E first \in Strangers, second \in Strangers :
        InitWith([max_id |-> 3, threshold |-> 1, weight |-> UnitWeights(3)],
                 {0}, <<first, second>>)

SpecStrangers == InitStrangers /\ [][NextScenario]_vars

\* agent 0 of a roster of four receives the same datagram of peer 2 MaxRepeat
\* times: its multi-signature {2} of level 2 and its individual signature
InitRepeat ==
    InitWith([max_id |-> 3, threshold |-> 3, weight |-> UnitWeights(3)],
             {0}, [k \in 1 .. MaxRepeat |-> Datagram(0, 2, 2, {2}, {2})])

SpecRepeat == InitRepeat /\ [][NextScenario]_vars

\* the agent of a roster of four that is sent signatures of peer 1 and of
\* peers 2 and 3 for level 0 and for level 2 while it starts
Early ==
    { Datagram(0, 1, 0, {1}, {}), Datagram(0, 1, 0, {1}, {1}),
      Datagram(0, 2, 2, {2}, {2}), Datagram(0, 3, 2, {2, 3}, {}) }

InitEarly ==
    \E first \in Early, second \in Early :
       InitWith([max_id |-> 3, threshold |-> 3, weight |-> UnitWeights(3)],
                {0}, <<first, second>>)

SpecEarly == InitEarly /\ [][NextScenario]_vars

\* two honest agents of a roster of two, threshold 1, over a lossy network,
\* from the moment both have started and their level timeouts have fired
NetAgents == {0, 1}

\* the state of agent n once its startup future has run on a fresh agent
StartedStore(n) == put(OwnTodo(n), NewStore).store

StartedEffect(n) ==
    send_update(n,
        check_completed_level(n, StartedStore(n),
            [levels |-> create_levels, out |-> {}, panic |-> FALSE], 0),
        from_individual(individual(n), n), 0, PeerCount)

\* ... and once its timeout stream has fired for every level in order
RECURSIVE TimedOutFrom(_, _, _)
TimedOutFrom(n, b, i) ==
    IF i >= L THEN b
    ELSE TimedOutFrom(n, start_level(n, StartedStore(n), b, i), i + 1)

TimedOutEffect(n) == TimedOutFrom(n, StartedEffect(n), 0)

\* both agents have run their startup futures and their level timeouts have
\* fired; a datagram sent before the peer's socket was bound is lost
InitNet ==
    /\ NoStandalone
    /\ config = [max_id |-> 1, threshold |-> 1, weight |-> UnitWeights(1)]
    /\ live = NetAgents
    /\ done = [n \in NetAgents |-> FALSE]
    /\ todos = [n \in NetAgents |-> <<>>]
    /\ store = [n \in NetAgents |-> StartedStore(n)]
    /\ levels = [n \in NetAgents |-> TimedOutEffect(n).levels]
    /\ result_sender = [n \in NetAgents |-> TRUE]
    /\ result = [n \in NetAgents |-> <<>>]
    /\ recv = [n \in NetAgents |->
                 [pc |-> "idle", todo |-> {}, message |-> {}, dropped |-> FALSE,
                  seq |-> 0]]
    /\ init = [n \in NetAgents |-> "finished"]
    /\ next_timeout = [n \in NetAgents |-> L]
    /\ panicked = [n \in NetAgents |-> {}]
    /\ net \in SUBSET (UNION {TimedOutEffect(n).out : n \in NetAgents})
    /\ injected = 0
    /\ feed = <<>>

NextNet ==
    \/ Deliver
    \/ Lose
    \/ \E n \in live : GetBestTodo(n)
    \/ \E n \in live : DrainPut(n)
    \/ \E n \in live : DrainCheckCompletedLevel(n)
    \/ \E n \in live : DrainCheckFinalSignature(n)
    \/ \E n \in live : OnUpdate(n)

\* the runtime runs every task that can take a step, the interval keeps
\* firing, and a datagram that keeps being sent arrives
FairNet ==
    /\ \A n \in NetAgents :
          /\ WF_vars(GetBestTodo(n))
          /\ WF_vars(DrainPut(n))
          /\ WF_vars(DrainCheckCompletedLevel(n))
          /\ WF_vars(DrainCheckFinalSignature(n))
          /\ WF_vars(OnUpdate(n))
    /\ SF_vars(Deliver)

SpecNet == InitNet /\ [][NextNet]_vars /\ FairNet

\* one agent of a roster of four, fed by the environment, with the two
\* verifications of a message completing in either order
NextJoin ==
    \/ Receive
    \/ \E n \in live : MultisigFut(n)
    \/ \E n \in live : IndividualFut(n)
    \/ \E n \in live : GetBestTodo(n)
    \/ \E n \in live : DrainPut(n)
    \/ \E n \in live : DrainCheckCompletedLevel(n)
    \/ \E n \in live : DrainCheckFinalSignature(n)
    \/ \E n \in live : InitPut(n)
    \/ \E n \in live : InitCheckCompletedLevel(n)
    \/ \E n \in live : InitCheckFinalSignature(n)
    \/ \E n \in live : InitSend(n)

SpecJoin == Init /\ [][NextJoin]_vars

\* the partitioner of partitioner.rs on its own: any node of any registry of
\* up to MaxSize identities, in either build
InitPartitioner ==
    \E size \in 1 .. MaxSize, checks \in BOOLEAN :
    \E node_id \in 0 .. size - 1 :
        /\ InitAgents([max_id |-> size - 1, threshold |-> 0,
                       weight |-> UnitWeights(size - 1)], {}, <<>>)
        /\ overflow_checks = checks
        /\ partitioner = {NewPartitioner(node_id, size)}
        /\ ranges = EmptyMap
        /\ udp = NoUdp
        /\ sink = NoSink
        /\ locks = NoLocks

NextPartitioner == IdentitiesAt

SpecPartitioner == InitPartitioner /\ [][NextPartitioner]_vars

\* the UDP receive task on its own
InitUdp ==
    /\ InitAgents([max_id |-> 0, threshold |-> 0, weight |-> UnitWeights(0)], {}, <<>>)
    /\ overflow_checks = FALSE
    /\ partitioner = {}
    /\ ranges = EmptyMap
    /\ udp = NoUdp
    /\ sink = NoSink
    /\ locks = NoLocks

NextUdp == Arrive \/ Poll

SpecUdp == InitUdp /\ [][NextUdp]_vars

\* a call of send_to on its own, in a registry of the ids 0 .. 3: the ids
\* handed to it may name the node and ids the registry does not know
SinkIds == 0 .. 5

InitSendTo ==
    /\ InitAgents([max_id |-> 3, threshold |-> 0, weight |-> UnitWeights(3)], {}, <<>>)
    /\ overflow_checks = FALSE
    /\ partitioner = {}
    /\ ranges = EmptyMap
    /\ udp = NoUdp
    /\ \E node_id \in 0 .. 3, n \in 0 .. MaxTo :
       \E to \in [1 .. n -> SinkIds] :
          sink = [node_id |-> node_id, to |-> to, pos |-> 1, sent |-> {}]
    /\ locks = NoLocks

NextSendTo == SendToNext

SpecSendTo == InitSendTo /\ [][NextSendTo]_vars

\* the tasks of one agent of a roster of four and their lock operations
InitLocks ==
    /\ InitAgents([max_id |-> 3, threshold |-> 0, weight |-> UnitWeights(3)], {}, <<>>)
    /\ overflow_checks = FALSE
    /\ partitioner = {}
    /\ ranges = EmptyMap
    /\ udp = NoUdp
    /\ sink = NoSink
    /\ locks = NoLocks

NextLocks == \E task \in LockTasks : LockStep(task)

SpecLocks == InitLocks /\ [][NextLocks]_vars

\* the store of agent 0 of a roster of four on its own: any sequence of
\* put_individual and put_multisig calls on one of its levels. The calls of a
\* sequence stay on the level of the first one: check_merge reads and
\* put_multisig writes the entries of the level of the call only.
OtherLevelsEmpty(st, level) ==
    \A l \in LevelIds \ {level} :
       st.individual_verified[l] = {} /\ l \notin DOMAIN st.multisig_best

InitStore ==
    InitWith([max_id |-> 3, threshold |-> 0, weight |-> UnitWeights(3)], {0}, <<>>)

StorePutIndividual ==
    \E level \in LevelIds, peer_id \in Roster :
       /\ OtherLevelsEmpty(store[0], level)
       /\ ApplyPut(0, "recv", TodoIndividual(peer_id, level, peer_id))
       /\ UNCHANGED <<standalone, config, live, done, todos, levels, result_sender,
                      result, recv, init, next_timeout, net, injected, feed>>

StorePutMultisig ==
    \E level \in LevelIds, signers \in SUBSET Roster :
       /\ OtherLevelsEmpty(store[0], level)
       /\ ApplyPut(0, "recv",
             TodoMulti([signature |-> SetToBag(signers), signers |-> signers], level, 1))
       /\ UNCHANGED <<standalone, config, live, done, todos, levels, result_sender,
                      result, recv, init, next_timeout, net, injected, feed>>

NextStore == StorePutIndividual \/ StorePutMultisig

SpecStore == InitStore /\ [][NextStore]_vars

\* ------------------------------------------------------------------ claims

\* a step in which agent n runs check_final_signature, from either task
CfsStep(n) ==
    \/ recv[n].pc = "cfs" /\ recv'[n].pc = "get"
    \/ init[n] = "cfs" /\ init'[n] = "send"

\* the multi-signature check_final_signature looks at
Final(n) == combined(store[n], L - 1)

\* C1: whatever the interleaving of the startup future, the drain loop, the
\* ticks and the level timeouts, the result channel carries at most one
\* multi-signature, and a result once sent is never followed by another
C1_ResultAtMostOnce ==
    [][\A n \in live :
          /\ Len(result'[n]) <= 1
          /\ result[n] # <<>> => result'[n] = result[n]]_vars

\* C1 witness: the startup future and the drain loop (on a level-0 todo) have
\* both run check_final_signature with the threshold condition true, and one
\* multi-signature was sent
C1_SecondCheckAfterSent ==
    \E n \in live :
       /\ Len(result[n]) = 1
       /\ ~result_sender[n]
       /\ init[n] \in {"send", "finished"}
       /\ recv[n].pc = "get"
       /\ \E t \in recv[n].todo : t.level = 0
       /\ ~Final(n).panic
       /\ \E c \in Final(n).value : len(c) > config.threshold

\* C2: check_final_signature sets done and sends combined(L-1) exactly when
\* combined(L-1) exists, the sum of the registry weights of its signers is
\* greater than the threshold, and nothing was sent before
C2_SendsIffWeightExceeds ==
    [][\A n \in live :
          (CfsStep(n) /\ ~Final(n).panic) =>
             ( (/\ done'[n]
                /\ Len(result'[n]) = Len(result[n]) + 1
                /\ result'[n][Len(result'[n])] \in Final(n).value)
               <=>
               (/\ \E c \in Final(n).value : SumWeights(c.signers) > config.threshold
                /\ result[n] = <<>>) )]_vars

\* agent n has handled every datagram of the script and its startup is over
Quiescent(n) ==
    /\ feed = <<>>
    /\ recv[n].pc = "idle"
    /\ init[n] = "finished"

\* C3: in the scenario of eight identities with threshold 6, once agent 0 has
\* handled the signatures of ids 1..7 it is done and has sent exactly one
\* multi-signature, signed by {0,...,5}, the smallest prefix of weight 6
C3_ScenarioCompletes ==
    \A n \in live :
       Quiescent(n) =>
          /\ done[n]
          /\ Len(result[n]) = 1
          /\ result[n][1].signers = 0 .. 5

\* C4: with every agent of the roster honest and a threshold below the total
\* weight, under fair ticks, level timeouts and delivery, every agent is
\* eventually done and has sent a final multi-signature
C4_EveryAgentEventuallyDone ==
    <>(\A n \in live : done[n] /\ Len(result[n]) = 1)

\* a step in which on_message is invoked on agent n
Invoked(n) == recv'[n].seq # recv[n].seq

\* the positions of the todos a step appended to the queue of agent n
Enqueued(n) == (Len(todos[n]) + 1) .. Len(todos'[n])

\* C5: an on_message invocation on an agent that is done returns at once: it
\* enqueues nothing and leaves the store, the levels and the sink unchanged
C5_DoneDropsMessages ==
    [][\A n \in live :
          (done[n] /\ Invoked(n)) =>
             /\ recv'[n].pc = "idle"
             /\ recv'[n].dropped
             /\ todos'[n] = todos[n]
             /\ store'[n] = store[n]
             /\ levels'[n] = levels[n]
             /\ net' \subseteq net]_vars

\* C5 witness: a done agent has dropped a message that it would otherwise have
\* handled: its level is valid and still receiving, its multi-signature verifies
C5_DroppedWhenDone ==
    \E n \in live :
       /\ done[n]
       /\ recv[n].dropped
       /\ todos[n] = <<>>
       /\ \E m \in recv[n].message :
             /\ m.level \in LevelIds
             /\ ~levels[n][m.level].receive_completed
             /\ verify_multisig(m.multisig, FALSE).kind = "Ok"

\* C6: every todo that an invocation enqueues carries a signature whose
\* verification returned Ok; a rejected signature leaves the store alone and
\* the handler goes on to its drain loop without a panic
C6_RejectedNotEnqueued ==
    [][\A n \in live :
          Invoked(n) =>
             /\ \A k \in Enqueued(n) :
                   IF todos'[n][k].kind = "Multi"
                   THEN verify_multisig(todos'[n][k].signature, FALSE).kind = "Ok"
                   ELSE verify_individual(todos'[n][k].signature,
                                          todos'[n][k].origin).kind = "Ok"
             /\ \A m \in recv'[n].message :
                   verify_multisig(m.multisig, FALSE).kind # "Ok" =>
                      /\ \A k \in Enqueued(n) : todos'[n][k].kind # "Multi"
                      /\ store'[n] = store[n]
                      /\ panicked'[n] = panicked[n]
                      /\ recv'[n].dropped \/ recv'[n].pc = "get"]_vars

\* C6 witness: the handler has gone past a message whose multi-signature was
\* rejected and is applying the individual signature of the same message
C6_RejectedHandled ==
    \E n \in live :
       /\ recv[n].pc = "put"
       /\ panicked[n] = {}
       /\ \E m \in recv[n].message :
             /\ verify_multisig(m.multisig, FALSE).kind = "UnknownSigner"
             /\ \E t \in recv[n].todo : t.kind = "Individual" /\ t.origin = m.origin

\* the message agent n is handling, or has just handled, has no such level
InvalidLevel(r) == \E m \in r.message : m.level \notin LevelIds

\* C7: a message whose level is L or more is dropped: its invocation enqueues
\* nothing and returns with the store and the levels unchanged, and the
\* receive task does not panic while handling it
C7_InvalidLevelDropped ==
    [][\A n \in live :
          /\ (Invoked(n) /\ InvalidLevel(recv'[n])) =>
                /\ recv'[n].pc = "idle"
                /\ todos'[n] = todos[n]
                /\ store'[n] = store[n]
                /\ levels'[n] = levels[n]
          /\ InvalidLevel(recv[n]) => "recv" \notin panicked'[n]]_vars

\* C8: the signers of the best multi-signature of a level are peers of the level
C8_BestWithinPeers ==
    \A n \in live :
       \A l \in DOMAIN store[n].multisig_best :
          store[n].multisig_best[l].signers \subseteq Range(n, l)

\* C9: the best multi-signature of a level is never removed and its length
\* never decreases
C9_BestLenMonotone ==
    [][\A n \in live :
          \A l \in DOMAIN store[n].multisig_best :
             /\ l \in DOMAIN store'[n].multisig_best
             /\ len(store'[n].multisig_best[l]) >= len(store[n].multisig_best[l])]_vars

\* C9 witness: a put has just replaced the best multi-signature of a level,
\* left there by an earlier message of the level, by a longer one
C9_ReplacedByLonger ==
    \E n \in live :
       /\ recv[n].pc = "ccl"
       /\ \E t \in recv[n].todo :
             /\ t.kind = "Multi"
             /\ len(t.signature) >= 2
             /\ t.level \in DOMAIN store[n].multisig_best
             /\ store[n].multisig_best[t.level] = t.signature
             /\ \E k \in 1 .. Len(todos[n]) :
                   /\ todos[n][k].kind = "Individual"
                   /\ todos[n][k].level = t.level

\* the signers of the best multi-signatures of the levels up to l
BestSigners(st, l) ==
    UNION {st.multisig_best[i].signers : i \in {j \in DOMAIN st.multisig_best : j <= l}}

\* C10: combined(l) is absent or signed by exactly the union of the signers of
\* best[0..=l], and the best multi-signatures of two levels share no signer
C10_CombinedIsUnion ==
    \A n \in live :
       /\ \A l \in LevelIds :
             /\ ~combined(store[n], l).panic
             /\ \A c \in combined(store[n], l).value :
                   c.signers = BestSigners(store[n], l)
       /\ \A i, j \in DOMAIN store[n].multisig_best :
             i # j => store[n].multisig_best[i].signers
                         \cap store[n].multisig_best[j].signers = {}

\* some level below a present best level, within 0..=up_to, has no best
Gap(st, up_to) ==
    \E i \in {k \in DOMAIN st.multisig_best : k <= up_to} :
       \E j \in 0 .. (i - 1) : j \notin DOMAIN st.multisig_best

\* C11: combined(up_to) is None whenever a level below a present best level is
\* missing; levels missing only above the highest present level do not make it
\* None
C11_GapIsNone ==
    \A n \in live :
       \A up_to \in LevelIds :
          /\ Gap(store[n], up_to) =>
                combined(store[n], up_to) = [panic |-> FALSE, value |-> {}]
          /\ (~Gap(store[n], up_to) /\ 0 \in DOMAIN store[n].multisig_best) =>
                \/ combined(store[n], up_to).panic
                \/ combined(store[n], up_to).value # {}

\* C11 witness: best[0] and best[2] are present, best[1] is absent and
\* combined(2) is None, while combined(1) is not
C11_GapAtLevelOne ==
    \E n \in live :
       /\ DOMAIN store[n].multisig_best = {0, 2}
       /\ combined(store[n], 2).value = {}
       /\ combined(store[n], 1).value # {}

\* the multi-signatures agent n holds: the best of its levels and the
\* multi-signatures waiting in its queue
Held(n) ==
    {store[n].multisig_best[l] : l \in DOMAIN store[n].multisig_best}
       \cup {todos[n][k].signature :
                k \in {j \in 1 .. Len(todos[n]) : todos[n][j].kind = "Multi"}}

\* C12: add_multisig fails exactly when the signer sets intersect and then
\* leaves a unchanged; on success a is signed by the union of the two signer
\* sets and its aggregate is the sum of the two aggregates
C12_MergeIsUnion ==
    \A n \in live :
       \A a, b \in Held(n) :
          /\ ~add_multisig(a, b).ok <=> a.signers \cap b.signers # {}
          /\ ~add_multisig(a, b).ok => add_multisig(a, b).multisig = a
          /\ add_multisig(a, b).ok =>
                /\ add_multisig(a, b).multisig.signers = a.signers \cup b.signers
                /\ add_multisig(a, b).multisig.signature = a.signature (+) b.signature

\* the multi-signatures a message can carry in a roster
Candidates ==
    {[signature |-> SetToBag(S), signers |-> S] : S \in SUBSET Roster}

\* put_multisig(s, l) applied to the result of put_multisig(s, l) changes nothing
Idempotent(st) ==
    \A l \in LevelIds :
       \A s \in Candidates :
          ~put_multisig(st, s, l).panic =>
             put_multisig(put_multisig(st, s, l).store, s, l)
                = put_multisig(st, s, l)

\* C13: put_multisig is idempotent on every store the agent reaches (the one
\* it starts with and every one a step produces), and once the same datagram
\* has arrived a second time no step of the started agent changes the store or
\* sends a result
C13_PutTwice ==
    [][\A n \in live :
          /\ (store'[n] # store[n] \/ init[n] = "put") => Idempotent(store'[n])
          /\ (feed = <<>> /\ init[n] = "finished") =>
                /\ store'[n] = store[n]
                /\ result'[n] = result[n]]_vars

\* C13 witness: on its second arrival the multi-signature of the datagram has
\* been put again
C13_PutAgain ==
    \E n \in live :
       /\ feed = <<>>
       /\ init[n] = "finished"
       /\ recv[n].pc = "ccl"
       /\ \E t \in recv[n].todo, m \in recv[n].message :
             /\ t.kind = "Multi"
             /\ t.signature = m.multisig
             /\ t.level = m.level


\* C14: when the drain loop puts a multi-signature todo (which get_best_todo
\* scored positive), the score of every todo that stays in the queue is at
\* most its score before the put.
C14_ScoreNotIncreased ==
    [][\A n \in live :
          (/\ recv[n].pc = "put"
           /\ recv'[n].pc = "ccl"
           /\ \E t \in recv[n].todo : t.kind = "Multi") =>
             \A k \in 1 .. Len(todos[n]) :
                evaluate(todos'[n][k], store'[n]) <= evaluate(todos[n][k], store[n])]_vars


\* the ids below size whose bit level - 1 differs from node_id's and whose
\* higher bits equal node_id's
XorBlock(node_id, size, level) ==
    {id \in 0 .. size - 1 :
        /\ id \div Pow2(level) = node_id \div Pow2(level)
        /\ (id \div Pow2(level - 1)) % 2 # (node_id \div Pow2(level - 1)) % 2}

\* C15: for every registry size, node and level up to log_2(size), the
\* identities the partitioner returns for level 0 are {node_id} and for a
\* level l >= 1 the ids whose bit l - 1 differs from node_id's and whose
\* higher bits equal node_id's.
C15_RangeIsXorBlock ==
    \A p \in partitioner : \A l \in DOMAIN ranges :
       l <= p.max_level =>
          /\ ranges[l].kind = "Ok"
          /\ ranges[l].ids = IF l = 0 THEN {p.node_id}
                             ELSE XorBlock(p.node_id, p.size, l)

\* C16: asking the partitioner for a level above log_2(size) fails with
\* InvalidLevel, and asking for a level up to log_2(size) does not fail.
C16_InvalidLevelFromL ==
    \A p \in partitioner : \A l \in DOMAIN ranges :
       IF l > p.max_level
       THEN ranges[l].kind = "InvalidLevel"
       ELSE ranges[l].kind = "Ok"


\* agent n runs check_completed_level for a todo of level l in this step
CclStep(n, l) ==
    \/ /\ recv[n].pc = "ccl"
       /\ recv'[n].pc = "cfs"
       /\ \E t \in recv[n].todo : t.level = l
    \/ /\ init[n] = "ccl"
       /\ init'[n] = "cfs"
       /\ l = 0

\* level l of agent n has all its peers in the best multi-signature and is
\* not marked yet
Completes(n, l) ==
    /\ ~levels[n][l].receive_completed
    /\ \E b \in best(store[n], l) : len(b) = num_peers(n, l)

\* the datagrams check_completed_level of level l puts on the sink of n
CclOut(n, l) == check_completed_level(n, store[n], EmptyEffect(n), l).out

\* C17: when check_completed_level runs for a level l whose best
\* multi-signature holds as many signers as the level has peers, the same call
\* marks l receive_completed, starts level l + 1 if there is one, and, if
\* combined(l) exists, emits an update to a peer of level l + 1.
C17_CompleteActivatesNext ==
    [][\A n \in live : \A l \in LevelIds :
          (CclStep(n, l) /\ Completes(n, l)) =>
             /\ levels'[n][l].receive_completed
             /\ (l + 1 < L) =>
                   /\ levels'[n][l + 1].send_started
                   /\ (~combined(store[n], l).panic /\ combined(store[n], l).value # {}) =>
                         \E d \in CclOut(n, l) :
                            /\ d.level = l + 1
                            /\ d.to \in Range(n, l + 1)]_vars

\* C17 witness: the drain of a level-1 todo has completed level 1 and started
\* level 2 before the timeout of level 2, with combined(1) present
C17_LevelOneCompleted ==
    \E n \in live :
       /\ recv[n].pc = "cfs"
       /\ \E t \in recv[n].todo : t.level = 1
       /\ levels[n][1].receive_completed
       /\ levels[n][2].send_started
       /\ next_timeout[n] <= 2
       /\ combined(store[n], 1).value # {}


\* C18: receive_completed of a level never goes back to false, and a
\* check_completed_level that finds it set changes no level and sends nothing:
\* of two tasks that both find a level complete, only the first marks it and
\* starts the next level.
C18_CompletedOnce ==
    [][\A n \in live : \A l \in LevelIds :
          /\ levels[n][l].receive_completed => levels'[n][l].receive_completed
          /\ (CclStep(n, l) /\ levels[n][l].receive_completed) =>
                /\ levels'[n] = levels[n]
                /\ CclOut(n, l) = {}]_vars

\* C18 witness: the drain loop has put a level-0 todo and is about to run
\* check_completed_level for it, and the startup future has marked level 0 in
\* the meantime
C18_MarkedByTheOther ==
    \E n \in live :
       /\ recv[n].pc = "ccl"
       /\ \E t \in recv[n].todo : t.level = 0
       /\ init[n] \in {"cfs", "send", "finished"}
       /\ levels[n][0].receive_completed
       /\ levels[n][1].send_started


\* the positions of the receive task inside the drain loop
DrainPcs == {"get", "put", "ccl", "cfs"}

\* every signature of the message of agent n that its verifier accepts has
\* its todo in the queue q
BothEnqueued(n, q) ==
    \A message \in recv[n].message :
       /\ verify_multisig(message.multisig, FALSE).kind = "Ok" =>
             \E k \in 1 .. Len(q) :
                /\ q[k].kind = "Multi"
                /\ q[k] = TodoMulti(message.multisig, message.level,
                                    verify_multisig(message.multisig, FALSE).votes)
       /\ \A sig \in message.individual :
             verify_individual(sig, message.origin).kind = "Ok" =>
                \E k \in 1 .. Len(q) :
                   /\ q[k].kind = "Individual"
                   /\ q[k] = TodoIndividual(sig, message.level, message.origin)

\* C19: the drain loop of a message starts only when the second of its two
\* verifications completes, with the todo of every accepted signature of the
\* message in the queue; before that the receive task applies no todo.
C19_DrainAfterBoth ==
    [][\A n \in live :
          /\ (recv[n].pc \notin DrainPcs /\ recv'[n].pc \in DrainPcs) =>
                /\ recv[n].pc \in {"verify_m", "verify_i"}
                /\ recv'[n].pc = "get"
                /\ BothEnqueued(n, todos'[n])
          /\ (recv[n].pc # "put" /\ recv'[n].pc = "put") => recv[n].pc = "get"]_vars

\* C19 witness: the drain loop is about to start after the individual
\* signature was verified first and the multi-signature second
C19_IndividualFirst ==
    \E n \in live :
       /\ recv[n].pc = "get"
       /\ Len(todos[n]) >= 2
       /\ todos[n][Len(todos[n]) - 1].kind = "Individual"
       /\ todos[n][Len(todos[n])].kind = "Multi"
       /\ \E message \in recv[n].message :
             /\ todos[n][Len(todos[n])].signature = message.multisig
             /\ todos[n][Len(todos[n]) - 1].origin = message.origin
             /\ todos[n][Len(todos[n]) - 1].level = message.level


\* the datagram at the head of the socket is read in this step
Read == udp.socket # <<>> /\ udp'.read = udp.read + 1

\* C20: a datagram whose frame size exceeds 1024 or whose payload does not
\* deserialise is dropped and reception goes on: the receive task keeps
\* running and nothing is passed to the handler for it.
C20_BadFrameDropped ==
    [][(Read /\ decode(Head(udp.socket)).kind = "Err") =>
          /\ udp'.recv_spawn = "running"
          /\ udp'.handled = udp.handled]_vars


\* C21: no todo in the queue of an agent names an id outside the registry:
\* the origin of an Individual todo and every signer of a Multi todo are in
\* the roster, because the verifier answers UnknownSigner for any other id.
C21_NoUnknownTodo ==
    \A n \in live : \A k \in 1 .. Len(todos[n]) :
       IF todos[n][k].kind = "Individual"
       THEN todos[n][k].origin \in Roster
       ELSE todos[n][k].signature.signers \subseteq Roster


\* C22: the queue of an agent never holds more todos than the number of
\* levels times the number of identities of the roster.
C22_QueueBounded ==
    \A n \in live : Len(todos[n]) <= L * (config.max_id + 1)


\* the merge/replace policy of the specification: the multi-signature that
\* put_multisig(candidate, level) is to leave in best[level]
ReferenceBest(st, candidate, level) ==
    LET has_best == level \in DOMAIN st.multisig_best
        B == st.multisig_best[level]
        merged == IF has_best /\ candidate.signers \cap B.signers = {}
                  THEN [signature |-> candidate.signature (+) B.signature,
                        signers |-> candidate.signers \cup B.signers]
                  ELSE candidate
        extra == st.individual_verified[level] \ merged.signers
        M == [signature |-> merged.signature (+) SetToBag(extra),
              signers |-> merged.signers \cup extra]
    IN IF ~has_best \/ len(M) > len(B) THEN M ELSE B

\* C23: a put_multisig of the drain loop leaves in best[level] what the
\* merge/replace policy prescribes: the candidate merged with the old best
\* when their signers are disjoint and extended with the verified individual
\* signatures of the level, if that is longer than the old best or there was
\* none, and the old best otherwise.
C23_PutMatchesPolicy ==
    [][\A n \in live :
          (/\ recv[n].pc = "put"
           /\ recv'[n].pc = "ccl"
           /\ panicked'[n] = panicked[n]) =>
             \A t \in recv[n].todo :
                (t.kind = "Multi" /\ t.level \in LevelIds) =>
                   /\ t.level \in DOMAIN store'[n].multisig_best
                   /\ store'[n].multisig_best[t.level] =
                         ReferenceBest(store[n], t.signature, t.level)]_vars


\* the scoring function of the specification, for a candidate signer set
Score(st, candidate, level) ==
    LET to_receive == IF level >= 1 THEN Pow2(level - 1) ELSE 1
        exists == level \in DOMAIN st.multisig_best
        B == st.multisig_best[level].signers
        I == st.individual_verified[level]
        with_I == candidate \cup I
        final == with_I \cup B
        overlap == exists /\ candidate \cap B # {}
        new_total == IF exists /\ ~overlap THEN Cardinality(final) ELSE Cardinality(with_I)
        added == IF overlap THEN (IF new_total > Cardinality(B) THEN new_total - Cardinality(B) ELSE 0)
                 ELSE IF exists THEN new_total - Cardinality(B)
                 ELSE new_total
        combined_in == IF exists /\ ~overlap
                    THEN Cardinality(SymDiff(final, B \cup candidate))
                    ELSE new_total - Cardinality(candidate)
        novel == candidate \cap I = {}
    IN IF exists /\ Cardinality(B) = to_receive THEN 0
       ELSE IF exists /\ candidate \subseteq B THEN 0
       ELSE IF added = 0 THEN (IF Cardinality(candidate) = 1 /\ novel THEN 1 ELSE 0)
       ELSE IF new_total = to_receive THEN 1000000 - level * 10 - combined_in
       ELSE 100000 - level * 100 + added * 10 - combined_in

\* the scores of the source on the store st against the specification
ScoredAsSpecified(st) ==
    \A level \in LevelIds :
       /\ \A candidate \in SUBSET Roster :
             LET multisig == [signature |-> SetToBag(candidate), signers |-> candidate]
             IN /\ evaluate_multisig(st, multisig, level, 1) = Score(st, candidate, level)
                /\ ~evaluate_underflows(st, multisig, level)
       /\ \A peer_id \in Roster :
             evaluate_individual(st, peer_id, level, peer_id)
                = IF peer_id \in DOMAIN st.individual_signatures[level] THEN 0
                  ELSE Score(st, {peer_id}, level)

\* C24: on every store the agent reaches, for every level and every candidate
\* signer set, evaluate_multisig returns the score of the specification and
\* none of its subtractions goes below zero; evaluate_individual returns 0 for
\* a peer whose individual signature is stored at the level and the score of
\* the singleton multi-signature otherwise.
C24_ScoreAsSpecified ==
    /\ \A n \in live : ScoredAsSpecified(store[n])
    /\ [][\A n \in live : store'[n] # store[n] => ScoredAsSpecified(store'[n])]_vars

\* a level-3 aggregate scored against a best signature it overlaps, with a
\* verified individual signature stored at the level
C24_OverlapScored ==
    \E n \in live :
       /\ 3 \in DOMAIN store[n].multisig_best
       /\ store[n].individual_verified[3] # {}
       /\ \E k \in 1 .. Len(todos[n]) :
             /\ todos[n][k].kind = "Multi"
             /\ todos[n][k].level = 3
             /\ todos[n][k].signature.signers \cap store[n].multisig_best[3].signers # {}
             /\ ~(todos[n][k].signature.signers \subseteq store[n].multisig_best[3].signers)
       /\ recv[n].pc = "get"


\* the greatest score of the queue against the store
MaxScore(queue, st) ==
    CHOOSE m \in {evaluate(queue[j], st) : j \in 1 .. Len(queue)} :
        \A j \in 1 .. Len(queue) : evaluate(queue[j], st) <= m

\* a get_best_todo of the drain loop that did not panic
GetStep(n) ==
    /\ recv[n].pc = "get"
    /\ recv'[n].pc # "get"
    /\ panicked'[n] = panicked[n]

\* C25: get_best_todo with a queue whose greatest score is positive removes
\* and returns the first todo, in queue order, that has the greatest score;
\* with an empty queue or no positive score it returns nothing and leaves the
\* queue as it was.
C25_FirstMaximum ==
    [][\A n \in live : GetStep(n) =>
          LET queue == todos[n]
              st == store[n]
          IN IF queue # <<>> /\ MaxScore(queue, st) > 0
             THEN \E i \in 1 .. Len(queue) :
                     /\ evaluate(queue[i], st) = MaxScore(queue, st)
                     /\ \A j \in 1 .. (i - 1) : evaluate(queue[j], st) < MaxScore(queue, st)
                     /\ recv'[n].pc = "put"
                     /\ recv'[n].todo # {}
                     /\ \A t \in recv'[n].todo : t.kind = queue[i].kind /\ t = queue[i]
                     /\ Len(todos'[n]) = Len(queue) - 1
                     /\ \A j \in 1 .. (Len(queue) - 1) :
                           LET kept == IF j = i THEN queue[Len(queue)] ELSE queue[j]
                           IN todos'[n][j].kind = kept.kind /\ todos'[n][j] = kept
             ELSE /\ Len(todos'[n]) = Len(queue)
                  /\ \A j \in 1 .. Len(queue) :
                        todos'[n][j].kind = queue[j].kind /\ todos'[n][j] = queue[j]
                  /\ recv'[n].pc # "put"
                  /\ recv'[n].todo = {}]_vars

\* a todo was taken for its positive score while a todo of the same score
\* stays behind it in the queue
C25_TieTaken ==
    \E n \in live :
       /\ recv[n].pc = "put"
       /\ \E t \in recv[n].todo : \E k \in 1 .. Len(todos[n]) :
             /\ evaluate(t, store[n]) > 0
             /\ evaluate(todos[n][k], store[n]) = evaluate(t, store[n])


\* every todo of the queue of agent n scores 0 against its store
AllZero(n) == \A k \in 1 .. Len(todos[n]) : evaluate(todos[n][k], store[n]) = 0

\* C26: the drain loop terminates. No step taken while it runs adds a todo to
\* the queue, and every iteration starts by taking one todo out, so the loop
\* makes at most as many iterations as the queue held todos when it started;
\* when it exits, every todo left in the queue scores 0 against the store.
C26_DrainTerminates ==
    [][\A n \in live :
          /\ (recv[n].pc \in DrainPcs /\ recv'[n].pc \in DrainPcs) =>
                Len(todos'[n]) <= Len(todos[n])
          /\ (recv[n].pc \in DrainPcs /\ recv[n].pc # "put" /\ recv'[n].pc = "put") =>
                Len(todos'[n]) = Len(todos[n]) - 1
          /\ (recv[n].pc \in DrainPcs /\ recv'[n].pc \notin DrainPcs) =>
                /\ recv[n].pc = "get"
                /\ AllZero(n)'
                /\ Len(todos'[n]) = Len(todos[n])]_vars

\* the drain loop of a message whose signature went into the store is about
\* to exit and leaves todos of score 0 in the queue
C26_ExitWithRest ==
    \E n \in live :
       /\ recv[n].pc = "get"
       /\ todos[n] # <<>>
       /\ AllZero(n)
       /\ \E l \in DOMAIN store[n].multisig_best : l > 0


\* C27: a todo leaves the queue only in get_best_todo, which hands it to the
\* drain loop, and the drain loop applies every todo it was handed to the
\* store, once: the put that follows the selection completes, and the store
\* changes in no other step of the loop.
C27_AppliedOnce ==
    [][\A n \in live :
          /\ Len(todos'[n]) < Len(todos[n]) =>
                /\ recv[n].pc = "get"
                /\ recv'[n].pc = "put"
                /\ Len(todos'[n]) = Len(todos[n]) - 1
          /\ (recv[n].pc = "put" /\ recv'[n].pc # "put") =>
                /\ recv'[n].pc = "ccl"
                /\ panicked'[n] = panicked[n]
                /\ \A t \in recv[n].todo : store'[n] = put(t, store[n]).store
          /\ (recv[n].pc = "put" /\ recv'[n].pc = "put") => recv'[n].todo = recv[n].todo
          /\ store'[n] # store[n] =>
                \/ recv[n].pc = "put" /\ recv'[n].pc = "ccl"
                \/ init[n] = "put" /\ init'[n] # "put"]_vars


\* the drain loop has applied the multi-signature it took from the queue, which
\* is now the best of its level, and another todo is still in the queue
C27_TakenAndStored ==
    \E n \in live :
       /\ recv[n].pc = "ccl"
       /\ todos[n] # <<>>
       /\ \E t \in recv[n].todo :
             /\ t.kind = "Multi"
             /\ t.level \in DOMAIN store[n].multisig_best
             /\ store[n].multisig_best[t.level] = t.signature


\* C28: a message whose level has receive_completed set when its handling
\* starts is dropped: the handler returns at once, without a verification, and
\* the queue, the store and the levels are as before.
C28_CompletedLevelDropped ==
    [][\A n \in live :
          Invoked(n) =>
             \A m \in recv'[n].message :
                (m.level \in LevelIds /\ levels[n][m.level].receive_completed) =>
                   /\ recv'[n].pc = "idle"
                   /\ recv'[n].dropped
                   /\ recv'[n].todo = {}
                   /\ Len(todos'[n]) = Len(todos[n])
                   /\ store'[n] = store[n]
                   /\ levels'[n] = levels[n]
                   /\ panicked'[n] = panicked[n]]_vars

\* a message for level 2 was dropped by an agent that is not done and has
\* completed level 2
C28_LevelTwoDropped ==
    \E n \in live :
       /\ recv[n].dropped
       /\ ~done[n]
       /\ \E m \in recv[n].message : m.level = 2 /\ levels[n][2].receive_completed


\* C29: every agent is constructed with level 0 started and every higher
\* level not started, no level receive_completed; when the startup future has
\* put the node's own signature, best[0] is signed by the node alone, and
\* when it has run check_completed_level, level 0 is receive_completed and
\* level 1 is started.
C29_StartupLevels ==
    /\ \A n \in live : \A l \in LevelIds :
          /\ levels[n][l].send_started <=> (l = 0)
          /\ ~levels[n][l].receive_completed
    /\ [][\A n \in live :
             /\ (init[n] = "put" /\ init'[n] # "put" /\ panicked'[n] = panicked[n]) =>
                   /\ 0 \in DOMAIN store'[n].multisig_best
                   /\ store'[n].multisig_best[0].signers = {n}
             /\ (init[n] = "ccl" /\ init'[n] # "ccl" /\ panicked'[n] = panicked[n]) =>
                   /\ levels'[n][0].receive_completed
                   /\ L > 1 => levels'[n][1].send_started]_vars


\* select_next_peers(count) on level l of agent n, in its present state
Selection(n, l, count) == select_next_peers(n, l, levels[n][l], count)

\* C30: on a level with n peers and the cursor at p, select_next_peers(count)
\* returns the k = min(count, n) ids peer_ids[(p + j) mod n], j = 0 .. k-1, in
\* that order, leaves the cursor at (p + k) mod n, below n, and changes
\* nothing else of the level state.
C30_RoundRobin ==
    \A n \in live : \A l \in LevelIds : \A count \in 0 .. PeerCount :
       LET peers == peer_ids(n, l)
           size == Len(peers)
           p == levels[n][l].send_peers_pos
           k == IF count < size THEN count ELSE size
           r == Selection(n, l, count)
       IN /\ Len(r.selected) = k
          /\ \A j \in 0 .. (k - 1) : r.selected[j + 1] = peers[((p + j) % size) + 1]
          /\ size > 0 =>
                /\ r.state.send_peers_pos = (p + k) % size
                /\ r.state.send_peers_pos < size
          /\ r.state = [levels[n][l] EXCEPT !.send_peers_pos = r.state.send_peers_pos]

\* the cursor of a level of four peers stands in the middle of the level, so
\* that a selection of more than two peers wraps around
C30_CursorInside ==
    \E n \in live : \E l \in LevelIds :
       /\ num_peers(n, l) >= 4
       /\ levels[n][l].send_peers_pos >= 2


\* C31: when check_completed_level runs for a todo of a level l that is not
\* marked yet, then for every level i above l whose combined(i-1) has more
\* signers than send_signature_size of level i, update_signature_to_send
\* returns true, the size is raised to that length and an update carrying
\* combined(i-1) is emitted for level i.
C31_LargerIsSent ==
    [][\A n \in live : \A l \in LevelIds :
          (CclStep(n, l) /\ ~levels[n][l].receive_completed
             /\ panicked'[n] = panicked[n]) =>
             \A i \in (l + 1) .. (L - 1) :
                \A c \in combined(store[n], i - 1).value :
                   len(c) > levels[n][i].send_signature_size =>
                      /\ update_signature_to_send(n, i, levels[n][i], c).updated
                      /\ levels'[n][i].send_signature_size = len(c)
                      /\ \E d \in CclOut(n, l) : d.level = i /\ d.multisig = c]_vars


\* the number of peers of the levels 0 .. l-1 of agent n
RECURSIVE PeersBelow(_, _)
PeersBelow(n, l) == IF l = 0 THEN 0 ELSE PeersBelow(n, l - 1) + num_peers(n, l - 1)

\* C32: for every level l >= 1 send_expected_full_size is the number of peers
\* of the levels below l, and a multi-signature of that many signers that is
\* longer than send_signature_size makes update_signature_to_send set
\* send_started of level l.
C32_FullSizeIsSum ==
    \A n \in live : \A l \in 1 .. (L - 1) :
       /\ send_expected_full_size(n, l) = PeersBelow(n, l)
       /\ \A c \in Candidates :
             (len(c) = PeersBelow(n, l) /\ len(c) > levels[n][l].send_signature_size) =>
                update_signature_to_send(n, l, levels[n][l], c).state.send_started


\* what a periodic tick of agent n does to its levels and its sink
Tick(n) == on_update_from(n, store[n], EmptyEffect(n), 1)

\* a step of agent n that belongs to none of the receive task, the startup
\* future, the timeout task and the environment
TickStep(n) ==
    /\ recv'[n].pc = recv[n].pc
    /\ recv'[n].seq = recv[n].seq
    /\ init'[n] = init[n]
    /\ next_timeout'[n] = next_timeout[n]
    /\ feed' = feed
    /\ injected' = injected
    /\ panicked'[n] \ panicked[n] \subseteq {"update"}

\* the datagrams of a tick of agent n: for every level l >= 1, combined(l-1)
\* to the next min(update_count, number of peers) peers of l, if it exists
TickSends(n) ==
    LET tick == Tick(n)
    IN ~tick.panic =>
       /\ \A d \in tick.out : d.level \in 1 .. (L - 1) /\ d.origin = n
       /\ \A l \in 1 .. (L - 1) :
             LET sent == {d \in tick.out : d.level = l}
                 peers == peer_ids(n, l)
                 p == levels[n][l].send_peers_pos
                 k == IF UpdateCount < Len(peers) THEN UpdateCount ELSE Len(peers)
                 c == combined(store[n], l - 1).value
             IN /\ c = {} => sent = {}
                /\ \A multisig \in c :
                      /\ \A d \in sent : d.multisig = multisig
                      /\ {d.to : d \in sent}
                            = {peers[((p + j) % Len(peers)) + 1] : j \in 0 .. (k - 1)}
                /\ tick.levels[l].receive_completed = levels[n][l].receive_completed

\* C33: a periodic tick sends, for every level l >= 1 with a combined(l-1),
\* one update of level l carrying combined(l-1) to the next
\* min(update_count, number of peers) peers of l, and nothing for level 0 or
\* for a level without combined(l-1); it moves only the peer cursors and
\* leaves the store, the queue, done and the receive_completed flags alone.
C33_TickSendsCombined ==
    [][\A n \in live :
          /\ TickSends(n)
          /\ (TickStep(n) /\ levels'[n] # levels[n]) => levels'[n] = Tick(n).levels
          /\ TickStep(n) =>
                /\ store'[n] = store[n]
                /\ Len(todos'[n]) = Len(todos[n])
                /\ done'[n] = done[n]
                /\ \A l \in LevelIds :
                      levels'[n][l].receive_completed = levels[n][l].receive_completed]_vars

\* a tick has moved the cursor of level 2 to its second peer: the update
\* with combined(1) went to the first one
C33_TickedLevelTwo ==
    \E n \in live :
       /\ levels[n][2].send_peers_pos = 1
       /\ num_peers(n, 2) = 2
       /\ combined(store[n], 1).value # {}


\* the datagrams the handlers of agent n that can run next put on its sink:
\* the tick, the timeout of the next level, check_completed_level of the task
\* that stands before it, and the first update of the startup future
Sends(n) ==
    Tick(n).out
      \cup (IF next_timeout[n] < L
            THEN start_level(n, store[n], EmptyEffect(n), next_timeout[n]).out
            ELSE {})
      \cup (IF recv[n].pc = "ccl"
            THEN UNION {CclOut(n, t.level) : t \in recv[n].todo}
            ELSE {})
      \cup (IF init[n] = "ccl" THEN CclOut(n, 0) ELSE {})
      \cup (IF init[n] = "send"
            THEN send_update(n, EmptyEffect(n),
                             from_individual(individual(n), n), 0, PeerCount).out
            ELSE {})

\* C34: every datagram an agent sends, from the tick, from the activation of
\* a level or from a completion, names the agent as origin and a level of
\* the agent, and carries the agent's individual signature exactly if that
\* level is not receive_completed when the datagram is sent.
C34_IndividualUnlessCompleted ==
    [][\A n \in live : \A d \in Sends(n) :
          /\ d.origin = n
          /\ d.level \in LevelIds
          /\ d.individual = IF levels[n][d.level].receive_completed
                            THEN {}
                            ELSE {individual(n)}]_vars

\* a tick sends the update of the completed level 2 without the individual
\* signature
C34_SentWithout ==
    \E n \in live :
       /\ levels[n][2].receive_completed
       /\ \E d \in Tick(n).out : d.level = 2 /\ d.individual = {}


\* the ids send_to has passed that are registered and not the node's own
Addressed == {sink.to[j] : j \in {k \in 1 .. (sink.pos - 1) :
                                     sink.to[k] # sink.node_id /\ sink.to[k] \in Roster}}

\* C35: send_to never puts a message for the node itself on the sink, and an
\* id the registry does not know is passed over: after every pass of the
\* loop the messages sent are those for the registered ids among the ids
\* passed, the node's own excepted, and the loop goes on to the end of the
\* list.
C35_NeverToSelf ==
    /\ \A d \in sink.sent : d.to # sink.node_id /\ d.origin = sink.node_id
    /\ {d.to : d \in sink.sent} = Addressed
    /\ sink.pos <= Len(sink.to) + 1
    /\ sink.pos = Len(sink.to) + 1 =>
          sink.sent = {[d EXCEPT !.to = t] :
                          d \in {SinkMessage(sink.node_id, 0)},
                          t \in {m.to : m \in send_to(sink.node_id, sink.to,
                                       from_individual(individual(sink.node_id),
                                                       sink.node_id), {}, 1)}}

\* send_to has finished a list with the node's own id, then an unknown id,
\* then a registered peer, and the peer got its message
C35_SentAfterUnknown ==
    /\ Len(sink.to) = 3
    /\ sink.pos = 4
    /\ sink.to[1] = sink.node_id
    /\ sink.to[2] \notin Roster
    /\ sink.to[3] \in Roster \ {sink.node_id}
    /\ \E d \in sink.sent : d.to = sink.to[3]


\* the timeout of level t fires for agent n in this step
TimeoutStep(n, t) == next_timeout[n] = t /\ next_timeout'[n] = t + 1

\* C36: a level timeout that fires for a level that is already started or
\* receive_completed does nothing: no datagram is put on the sink and the
\* level states, the cursors and the store are as before.
C36_LateTimeoutIsNoOp ==
    [][\A n \in live : \A t \in LevelIds :
          (TimeoutStep(n, t)
             /\ (levels[n][t].send_started \/ levels[n][t].receive_completed)) =>
             /\ start_level(n, store[n], EmptyEffect(n), t).out = {}
             /\ levels'[n] = levels[n]
             /\ store'[n] = store[n]]_vars


\* C37: no interleaving of the startup future, the message handler, the tick
\* and the timeouts leads to a state in which every unfinished task waits
\* for a lock: as long as a task has not finished, some task can take its
\* next step.
C37_NoLockDeadlock ==
    (\E task \in LockTasks : ~Finished(task)) => (\E task \in LockTasks : Ready(task))


\* C38: the aggregate of every best multi-signature is the sum of one
\* individual signature of each of its signers and of nothing else.
C38_AggregateMatchesSigners ==
    \A n \in live : \A l \in DOMAIN store[n].multisig_best :
       store[n].multisig_best[l].signature = SetToBag(store[n].multisig_best[l].signers)


\* C39: in every reachable state a delivered result implies done, done implies
\* that the result sender was taken, and done never returns to false
C39_DoneOrdering ==
    /\ [](\A n \in live :
            /\ result[n] # <<>> => done[n]
            /\ done[n] => ~result_sender[n])
    /\ [][\A n \in live : done[n] => done'[n]]_vars

\* C39 witness: an agent has taken the result sender, is done and has delivered
\* its result, and its receive task was invoked again afterwards
C39_DoneDelivered ==
    \E n \in live :
       /\ done[n]
       /\ ~result_sender[n]
       /\ Len(result[n]) = 1
       /\ recv[n].pc = "idle"
       /\ recv[n].dropped


\* C40: after any sequence of put_individual and put_multisig calls on valid
\* levels no put has panicked, every verified individual signature of a level
\* is stored at the level, and for every candidate multi-signature neither
\* check_merge nor the addition of the complement individuals to the merged
\* multi-signature panics
C40_MergeNeverPanics ==
    \A n \in live :
       /\ panicked[n] = {}
       /\ \A l \in LevelIds :
             /\ store[n].individual_verified[l]
                   \subseteq DOMAIN store[n].individual_signatures[l]
             /\ \A c \in Candidates :
                   /\ ~check_merge(store[n], c, l).panic
                   /\ l \in DOMAIN store[n].multisig_best =>
                         LET merged == add_multisig(c, store[n].multisig_best[l]).multisig
                         IN ~AddComplements(merged, store[n].individual_signatures[l],
                                store[n].individual_verified[l] \ merged.signers).panic

\* C40 witness: check_merge has added the complement individuals: the best of
\* a level is signed by the two verified individuals of the level and carries
\* the aggregate of a merged multi-signature besides
C40_ComplementsAdded ==
    \E n \in live : \E l \in DOMAIN store[n].multisig_best :
       /\ panicked[n] = {}
       /\ Cardinality(store[n].individual_verified[l]) = 2
       /\ store[n].multisig_best[l].signers = store[n].individual_verified[l]
       /\ store[n].multisig_best[l].signature
             # SetToBag(store[n].multisig_best[l].signers)

====
